---- MODULE Spec2Model ----
(***************************************************************************)
(* Model of the documentation knowledge base of moveworks_mcp/kb:          *)
(*   indexer.py  KBIndexer  - the two ChromaDB collections and the         *)
(*                            index / remove operations on them            *)
(*   crawler.py  DocCrawler - crawl_domain's breadth-first crawl           *)
(*   search.py   KBSearch   - the hybrid dense + BM25 search               *)
(*                                                                         *)
(* Text is modelled as a sequence of string tokens, a URL as a record of   *)
(* its parts (host = urlparse(url).netloc).  Scores are fixed-point        *)
(* integers.  Each component has its own specification:                    *)
(*   Spec        the indexer, one page or URL per call, calls may raise    *)
(*   SpecBatch   the indexer with index_pages, on a store that answers     *)
(*   SpecConc    two threads in index_page for one URL                     *)
(*   SpecCrawl   crawl_domain                                              *)
(*   SpecFetch   crawl_domain, crawl_multiple or crawl_url                 *)
(*   SpecSearch  search, one store call a step                             *)
(*   SpecSearchThree  search on a store of three pages                     *)
(*   SpecOverlap search with the store calls of a writing thread between   *)
(*               its own store calls                                      *)
(*   SpecFrame   every operation of the three classes on one store, one    *)
(*               call at a time                                            *)
(*   SpecNormalize  a URL normalization applied to a URL string           *)
(*   SpecBreadcrumb _extract_breadcrumb applied to a page and its URL      *)
(* and the file-based knowledge bases of moveworks_mcp/tools:              *)
(*   SpecKb      KnowledgeBaseManager.add_document, index_url and          *)
(*               remove_indexed_content, one call at a time                *)
(*   SpecTools   the tools index_url, index_multiple_urls,                 *)
(*               refresh_all_indexed_content, remove_indexed_content,      *)
(*               index_documentation and delete_knowledge_base, one call   *)
(*               at a time                                                 *)
(***************************************************************************)
EXTENDS Integers, Sequences, FiniteSets, TLC

VARIABLES
    pages,      \* KBIndexer.pages  : the documents collection (mw_pages)
    chunks,     \* KBIndexer.chunks : the chunks collection (mw_chunks)
    ret,        \* the last call: its operation, arguments, outcome and result
    faults,     \* number of store / embedder errors injected so far
    crawler,    \* DocCrawler's fields: base_url, domain, max_pages
    sitemap_url,    \* crawl_domain's argument: TRUE when one is given
    cpc,        \* where crawl_domain stands
    urls_to_crawl,  \* crawl_domain's locals
    queue,
    seen,
    crawled,    \* crawl_domain's dict pages, in insertion order
    batch,
    results,    \* the gathered tasks' results, "pending" until one ends
    fetchLog,   \* every URL a page request was sent for, in order
    completion, \* the positions of the batch, in the order their fetches ended
                \* (kept for batches of MaxLogged requests at most)
    sitemap_response,   \* what the sitemap request of crawl_domain ended with
    spc,        \* where KBSearch.search stands
    top_k,      \* search's argument
    chunk_results,  \* search's locals
    url_scores, \* the dicts url_scores and url_meta, in insertion order
    docs,       \* _bm25_search's list docs: the texts loaded so far
    bm25_scores,    \* the dict _bm25_search returned, in insertion order
    ranked_urls,    \* the part of ranked_urls the result loop has yet to fetch
    search_results, \* the list search returns
    snapshot,   \* the store as it was when search began
    calls,      \* the index_page and remove_page calls in progress, by thread
    fn,         \* the helper function applied on its own, "none" when none is
    arg,        \* its argument
    out,        \* what it returned, call after call
    kbs,        \* the directories under KnowledgeBaseManager.base_path, by name
    kb_ret,     \* the last knowledge base call: its arguments, its result
                \* and the knowledge base's directory as it was before it
    crawled_docs    \* the URLs index_documentation put into the default KB

indexerVars == <<pages, chunks, ret, faults>>

crawlVars ==
    <<crawler, sitemap_url, cpc, urls_to_crawl, queue, seen, crawled, batch,
      results, fetchLog, completion, sitemap_response>>

searchVars ==
    <<spc, top_k, chunk_results, url_scores, docs, bm25_scores, ranked_urls,
      search_results>>

concVars == <<snapshot, calls>>

fnVars == <<fn, arg, out>>

kbVars == <<kbs, kb_ret, crawled_docs>>

vars == <<indexerVars, crawlVars, searchVars, concVars, fnVars, kbVars>>

(***************************************************************************)
(* Bounds of the model                                                     *)
(***************************************************************************)
\* paths 1..MaxDocs on the first host are the URLs the indexer is given
MaxDocs == 2
\* page contents 1..MaxVersion that a URL can be indexed with
MaxVersion == 2
\* index_pages is given at most MaxBatch pages
MaxBatch == 2
\* the calls of the store's readers and of the crawler begin on a store
\* of at most MaxFramePages documents
MaxFramePages == 1
\* the words in the content of the page whose text is longer than the
\* full_content view keeps
LongWords == 400
\* at most MaxFaults store / embedder calls raise in one behaviour
MaxFaults == 1
\* a site's pages have the paths 0..MaxPath (0: the root)
MaxPath == 1
\* a fetched page holds at most MaxLinks anchors
MaxLinks == 2
\* a sitemap lists at most MaxSitemap loc entries
MaxSitemap == 2
\* a page listed in a sitemap of more than MaxSitemap loc entries holds
\* MaxLongLinks anchors at most
MaxLongLinks == 0
\* the order in which the requests of a batch end is kept for batches of
\* MaxLogged requests at most
MaxLogged == 2
\* the crawler is built with max_pages in 0..MaxCap
MaxCap == 2
\* search is called with top_k in 1..MaxTopK
MaxTopK == 2
\* a chunk's cosine distance is one of MaxDistSteps + 1 values in [0, 2]
MaxDistSteps == 2
\* a BM25Okapi score is one of -1..MaxBm25
MaxBm25 == 3
\* the threads index versions 1..MaxConcVersion of one page
MaxConcVersion == 4
\* a search that overlaps a write runs on a store of MaxOverlapPages pages
MaxOverlapPages == 1
\* the writing thread makes MaxOverlapCalls calls at most while a search runs
MaxOverlapCalls == 1
\* crawl_multiple is called with MaxMulti URLs at most
MaxMulti == 11
\* a list crawl_multiple is called with that names a URL twice has
\* MaxMultiRepeat URLs at most
MaxMultiRepeat == 3
\* a page fetched by crawl_multiple holds MaxMultiLinks anchors at most
MaxMultiLinks == 0
\* a URL string's path has MaxSegments segments at most
MaxSegments == 2
\* a URL normalization is applied MaxApply times in a row at most
MaxApply == 2
\* the path of a URL a breadcrumb is derived from has MaxPathChars characters
\* at most
MaxPathChars == 4
\* index_multiple_urls is called with MaxUrlList items at most
MaxUrlList == 2
\* a documentation sitemap has MaxSitemapPages pages at most
MaxSitemapPages == 2

(***************************************************************************)
(* URLs and text                                                           *)
(***************************************************************************)
HostA == "help.moveworks.com"
HostB == "docs.example.org"
Hosts == {HostA, HostB}

\* A URL string scheme://host/path[/][#fragment], as its parts.
MkUrl(h, p) == [host |-> h, path |-> p, slash |-> FALSE, frag |-> FALSE]

\* KBIndexer._extract_domain: urlparse(url).netloc
_extract_domain(url) == url.host

Whitespace == {" ", "\n", "\t"}

Range(f) == {f[i] : i \in DOMAIN f}

\* not view_text.strip()
IsBlank(text) == \A i \in 1..Len(text) : text[i] \in Whitespace

\* text[:n]
Take(text, n) == SubSeq(text, 1, IF Len(text) < n THEN Len(text) ELSE n)

\* the characters of the tokens text[lo..hi], counted by halves
RECURSIVE CharLen(_, _, _)
CharLen(text, lo, hi) ==
    IF lo > hi THEN 0
    ELSE IF lo = hi THEN Len(text[lo])
    ELSE LET m == (lo + hi) \div 2
         IN  CharLen(text, lo, m) + CharLen(text, m + 1, hi)

\* the first n characters of the tokens text[lo..hi], the token the cut
\* falls in kept up to the cut
RECURSIVE CutChars(_, _, _, _)
CutChars(text, lo, hi, n) ==
    IF lo > hi \/ n <= 0 THEN <<>>
    ELSE IF lo = hi
    THEN <<SubSeq(text[lo], 1, IF Len(text[lo]) < n THEN Len(text[lo]) ELSE n)>>
    ELSE LET m == (lo + hi) \div 2
             l == CharLen(text, lo, m)
         IN  IF n <= l THEN CutChars(text, lo, m, n)
             ELSE SubSeq(text, lo, m) \o CutChars(text, m + 1, hi, n - l)

\* text[:n] of a text held as tokens
TakeChars(text, n) ==
    IF CharLen(text, 1, Len(text)) <= n THEN text
    ELSE CutChars(text, 1, Len(text), n)

\* enriched_content[:2000]
ViewCap == 2000

(***************************************************************************)
(* The pages the indexer is called with                                    *)
(***************************************************************************)
IndexUrls == {MkUrl(HostA, p) : p \in 1..MaxDocs} \cup {MkUrl(HostB, 1)}

\* Breadcrumbs cycle through a non-empty one, the empty string and a
\* whitespace-only one.
BreadcrumbOf(v) ==
    CASE v % 3 = 1 -> [i \in 1..((v \div 3) + 1) |-> "Docs"]
      [] v % 3 = 2 -> [i \in 1..(v \div 3) |-> "\t"]
      [] OTHER     -> [i \in 1..(v \div 3) |-> " "]

TitleOf(v) == [i \in 1..v |-> "Title"]

ContentOf(v) == [i \in 1..(v - 1) |-> "body"]

MkPage(u, v) ==
    [url |-> u, title |-> TitleOf(v), breadcrumb |-> BreadcrumbOf(v),
     content |-> ContentOf(v)]

PageInputs == {MkPage(u, v) : u \in IndexUrls, v \in 1..MaxVersion}

\* s repeated k times
RECURSIVE Rep(_, _)
Rep(s, k) ==
    IF k = 0 THEN ""
    ELSE LET half == Rep(s, k \div 2)
         IN  IF k % 2 = 0 THEN half \o half ELSE half \o half \o s

\* a page whose enriched text has more than ViewCap characters: its
\* content is LongWords words of five characters
LongPage ==
    [MkPage(MkUrl(HostA, 1), 1) EXCEPT !.content = <<Rep("body ", LongWords)>>]

\* the pages index_page is called with
IndexInputs == PageInputs \cup {LongPage}

(***************************************************************************)
(* The store: a collection is a set of records with distinct ids           *)
(***************************************************************************)
\* collection.add in place of upsert: inserts without replacing
AddRecord(coll, rec) == coll \cup {rec}

\* collection.upsert(ids=[id], ...)
Upsert(coll, rec) == {r \in coll : r.id # rec.id} \cup {rec}

\* collection.get(ids=[id])["ids"]
GetIds(coll, id) == {r.id : r \in {x \in coll : x.id = id}}

\* collection.delete(ids=ids)
DeleteIds(coll, ids) == {r \in coll : r.id \notin ids}

\* the ids of every record, whatever its domain
IdsWhereAny(coll, domain) == {r.id : r \in coll}

\* pages.get(where={"domain": domain})["ids"], chunks.get likewise
IdsWhereDomain(coll, domain) ==
    {r.id : r \in {x \in coll : x.metadata.domain = domain}}

\* chunks.get(where={"parent_url": url})["ids"]
IdsWhereParent(coll, url) ==
    {r.id : r \in {x \in coll : x.metadata.parent_url = url}}

page_exists_never(P, url) == FALSE

\* KBIndexer.page_exists
page_exists(P, url) == GetIds(P, url) # {}

\* f"Navigation: {breadcrumb}\nTitle: {title}\n\n{content}"
enriched_content(page) ==
    <<"Navigation: ">> \o page.breadcrumb \o <<"\n", "Title: ">> \o page.title
        \o <<"\n", "\n">> \o page.content

\* view i of index_page, numbered 0..2 as enumerate does
View(page, i) ==
    CASE i = 0 -> page.breadcrumb
      [] i = 1 -> page.title \o <<" - ">> \o page.breadcrumb
      [] OTHER -> TakeChars(enriched_content(page), ViewCap)

\* the three views of index_page
Views(page) == <<View(page, 0), View(page, 1), View(page, 2)>>

view_labels == <<"breadcrumb", "title_path", "full_content">>

\* hashlib.md5(f"{url}::view::{i}").hexdigest(): one id per (url, i)
ChunkId(url, i) == <<url, i>>

DocRecord(page) ==
    [id |-> page.url,
     document |-> enriched_content(page),
     metadata |-> [url |-> page.url, title |-> page.title,
                   breadcrumb |-> page.breadcrumb,
                   domain |-> _extract_domain(page.url)]]

ChunkRecord(page, i) ==
    [id |-> ChunkId(page.url, i),
     document |-> View(page, i),
     metadata |-> [parent_url |-> page.url, title |-> page.title,
                   breadcrumb |-> page.breadcrumb,
                   view_type |-> view_labels[i + 1],
                   domain |-> _extract_domain(page.url)]]

(***************************************************************************)
(* index_page                                                              *)
(***************************************************************************)
\* The external calls of index_page that can raise.  "view0".."view2" is
\* the embedder.encode / chunks.upsert pair of that view.
IndexFaults == {"exists", "doc", "view0", "view1", "view2"}

ViewFault(i) == CASE i = 0 -> "view0" [] i = 1 -> "view1" [] OTHER -> "view2"

\* The for loop over the views from view i on.  Returns the chunks
\* collection and whether the loop raised.
RECURSIVE IndexViews(_, _, _, _)
IndexViews(C, page, i, fault) ==
    IF i > 2 THEN [chunks |-> C, raised |-> FALSE]
    ELSE IF IsBlank(View(page, i)) THEN IndexViews(C, page, i + 1, fault)
    ELSE IF fault = ViewFault(i) THEN [chunks |-> C, raised |-> TRUE]
    ELSE IndexViews(Upsert(C, ChunkRecord(page, i)), page, i + 1, fault)

\* index_page returning the url also for a page it skipped
index_page_always_url(P, C, page, force, fault) ==
    IF ~force /\ page_exists(P, page.url)
    THEN [pages |-> P, chunks |-> C, raised |-> FALSE, result |-> <<page.url>>]
    ELSE LET v == IndexViews(C, page, 0, "none")
         IN  [pages |-> Upsert(P, DocRecord(page)), chunks |-> v.chunks,
              raised |-> FALSE, result |-> <<page.url>>]

\* index_page skipping a stored page also when force is given
index_page_ignoring_force(P, C, page, force, fault) ==
    IF page_exists(P, page.url)
    THEN [pages |-> P, chunks |-> C, raised |-> FALSE, result |-> <<>>]
    ELSE LET v == IndexViews(C, page, 0, "none")
         IN  [pages |-> Upsert(P, DocRecord(page)), chunks |-> v.chunks,
              raised |-> FALSE, result |-> <<page.url>>]

\* KBIndexer.index_page(page, force) on the store (P, C), with the external
\* call named by fault raising ("none": no call raises).  result is <<>>
\* for None and <<url>> for a returned url.
index_page(P, C, page, force, fault) ==
    IF ~force /\ fault = "exists"
    THEN [pages |-> P, chunks |-> C, raised |-> TRUE, result |-> <<>>]
    ELSE IF ~force /\ page_exists(P, page.url)
    THEN [pages |-> P, chunks |-> C, raised |-> FALSE, result |-> <<>>]
    ELSE IF fault = "doc"
    THEN [pages |-> P, chunks |-> C, raised |-> TRUE, result |-> <<>>]
    ELSE LET P1 == Upsert(P, DocRecord(page))
             v  == IndexViews(C, page, 0, fault)
         IN  [pages |-> P1, chunks |-> v.chunks, raised |-> v.raised,
              result |-> IF v.raised THEN <<>> ELSE <<page.url>>]

(***************************************************************************)
(* index_pages                                                             *)
(***************************************************************************)
\* The loop of index_pages from page i on, over pages.values() = ps.  The
\* call named by fault raises while page k is indexed (k = 0: none does).
\* existed records, per page, what page_exists would answer when the page
\* is reached.
RECURSIVE IndexLoop(_, _, _, _, _, _, _, _)
IndexLoop(P, C, ps, force, i, k, fault, acc) ==
    IF i > Len(ps) THEN [pages |-> P, chunks |-> C, raised |-> FALSE] @@ acc
    ELSE LET r == index_page(P, C, ps[i], force, IF i = k THEN fault ELSE "none")
             a == [indexed |-> IF r.result = <<>> THEN acc.indexed
                               ELSE acc.indexed \o r.result,
                   skipped |-> IF r.result = <<>> THEN Append(acc.skipped, ps[i].url)
                               ELSE acc.skipped,
                   existed |-> Append(acc.existed, \E d \in P : d.id = ps[i].url)]
         IN  IF r.raised
             THEN [pages |-> r.pages, chunks |-> r.chunks, raised |-> TRUE] @@ acc
             ELSE IndexLoop(r.pages, r.chunks, ps, force, i + 1, k, fault, a)

\* KBIndexer.index_pages(pages, force)
index_pages(P, C, ps, force, k, fault) ==
    IndexLoop(P, C, ps, force, 1, k, fault,
              [indexed |-> <<>>, skipped |-> <<>>, existed |-> <<>>])

(***************************************************************************)
(* remove_page, remove_domain, list_pages, get_full_page                   *)
(***************************************************************************)
RemovePageFaults == {"delete_doc", "get_chunks", "delete_chunks"}

\* KBIndexer.remove_page(url).  An error of pages.delete is swallowed by
\* the try/except and leaves the document in place; the chunk calls are
\* outside the try and raise.
remove_page(P, C, url, fault) ==
    LET P1 == IF fault = "delete_doc" THEN P ELSE DeleteIds(P, {url})
        existing == IdsWhereParent(C, url)
    IN  IF fault = "get_chunks"
        THEN [pages |-> P1, chunks |-> C, raised |-> TRUE, swallowed |-> FALSE]
        ELSE IF existing # {} /\ fault = "delete_chunks"
        THEN [pages |-> P1, chunks |-> C, raised |-> TRUE, swallowed |-> FALSE]
        ELSE [pages |-> P1,
              chunks |-> IF existing # {} THEN DeleteIds(C, existing) ELSE C,
              raised |-> FALSE, swallowed |-> (fault = "delete_doc")]

RemoveDomainFaults == {"get_docs", "delete_docs", "get_domain_chunks",
                       "delete_domain_chunks"}

\* KBIndexer.remove_domain(domain): no call is guarded, every error raises.
remove_domain(P, C, domain, fault) ==
    LET page_results == IdsWhereDomain(P, domain)
        chunk_ids == IdsWhereDomain(C, domain)
        P1 == IF page_results # {} THEN DeleteIds(P, page_results) ELSE P
    IN  IF fault = "get_docs"
        THEN [pages |-> P, chunks |-> C, raised |-> TRUE]
        ELSE IF page_results # {} /\ fault = "delete_docs"
        THEN [pages |-> P, chunks |-> C, raised |-> TRUE]
        ELSE IF fault = "get_domain_chunks"
        THEN [pages |-> P1, chunks |-> C, raised |-> TRUE]
        ELSE IF chunk_ids # {} /\ fault = "delete_domain_chunks"
        THEN [pages |-> P1, chunks |-> C, raised |-> TRUE]
        ELSE [pages |-> P1,
              chunks |-> IF chunk_ids # {} THEN DeleteIds(C, chunk_ids)
                         ELSE C,
              raised |-> FALSE]

\* a set as a list, in the store's traversal order
RECURSIVE SetToSeq(_)
SetToSeq(S) ==
    IF S = {} THEN <<>>
    ELSE LET x == CHOOSE y \in S : TRUE IN <<x>> \o SetToSeq(S \ {x})

\* the domain that `if domain:` takes as no domain: None and the empty
\* string
NoDomain == ""

\* KBIndexer.list_pages(domain)
list_pages(P, domain) ==
    LET listed == IF domain # NoDomain
                  THEN {r \in P : r.metadata.domain = domain}
                  ELSE P
        metadatas == SetToSeq(listed)
    IN  [i \in 1..Len(metadatas) |->
            [url |-> metadatas[i].metadata.url,
             title |-> metadatas[i].metadata.title,
             breadcrumb |-> metadatas[i].metadata.breadcrumb,
             domain |-> metadatas[i].metadata.domain]]

\* KBIndexer.get_full_page(url): <<>> for None, else <<document>>
get_full_page(P, url) ==
    LET result == SetToSeq({r \in P : r.id = url})
    IN  IF result = <<>> THEN <<>> ELSE <<result[1].document>>

(***************************************************************************)
(* The indexer's operations as actions                                     *)
(***************************************************************************)
\* pages.values() of the dict index_pages is given; two values may carry
\* the same url
RECURSIVE PageSeqs(_)
PageSeqs(n) ==
    IF n = 0 THEN {<<>>}
    ELSE LET shorter == PageSeqs(n - 1)
         IN  shorter \cup
             {Append(ps, p) : ps \in {s \in shorter : Len(s) = n - 1},
                              p \in PageInputs}

PagesInputs == PageSeqs(MaxBatch)

DistinctUrls(ps) == \A i, j \in 1..Len(ps) : ps[i].url = ps[j].url => i = j

\* the page lists the stores of search are built from
StoreInputs == {ps \in PagesInputs : DistinctUrls(ps)}

NoCall ==
    [op |-> "none", page |-> MkPage(MkUrl(HostA, 1), 1), force |-> FALSE,
     pagesArg |-> <<>>, url |-> MkUrl(HostA, 1), domain |-> NoDomain,
     raised |-> FALSE, swallowed |-> FALSE, result |-> <<>>,
     indexed |-> <<>>, skipped |-> <<>>, existed |-> <<>>,
     changed |-> FALSE, repeat |-> FALSE, preEmpty |-> FALSE]

IndexerIdle ==
    /\ pages = {}
    /\ chunks = {}
    /\ ret = NoCall
    /\ faults = 0

\* a call raises only while the fault budget lasts
MayFault(fault) == fault # "none" => faults < MaxFaults

StoreChanged(r) == r.pages # pages \/ r.chunks # chunks

\* index_page(page, force), one of the calls in F raising ("none": none)
IndexPage(F) ==
    \E page \in IndexInputs, force \in BOOLEAN, fault \in F :
        /\ MayFault(fault)
        /\ \E r \in {index_page(pages, chunks, page, force, fault)} :
            /\ fault # "none" => r.raised
            /\ pages' = r.pages
            /\ chunks' = r.chunks
            /\ faults' = IF r.raised THEN faults + 1 ELSE faults
            /\ UNCHANGED <<crawlVars, searchVars, concVars, fnVars, kbVars>>
            /\ ret' = [NoCall EXCEPT
                 !.op = "index_page", !.page = page, !.force = force,
                 !.raised = r.raised, !.result = r.result,
                 !.existed = <<\E d \in pages : d.id = page.url>>,
                 !.changed = StoreChanged(r),
                 !.repeat = (ret.op = "index_page" /\ ret.page = page
                                /\ ret.force = force /\ ~ret.raised),
                 !.preEmpty = (pages = {})]

\* index_pages(pages, force), a call in F raising while page k is indexed
IndexPages(F) ==
    \E ps \in PagesInputs, force \in BOOLEAN, k \in 0..MaxBatch, fault \in F :
        /\ MayFault(fault)
        /\ k <= Len(ps)
        /\ (k = 0) = (fault = "none")
        /\ \E r \in {index_pages(pages, chunks, ps, force, k, fault)} :
            /\ fault # "none" => r.raised
            /\ pages' = r.pages
            /\ chunks' = r.chunks
            /\ faults' = IF r.raised THEN faults + 1 ELSE faults
            /\ UNCHANGED <<crawlVars, searchVars, concVars, fnVars, kbVars>>
            /\ ret' = [NoCall EXCEPT
                 !.op = "index_pages", !.pagesArg = ps, !.force = force,
                 !.raised = r.raised, !.indexed = r.indexed,
                 !.skipped = r.skipped, !.existed = r.existed,
                 !.changed = StoreChanged(r),
                 !.repeat = (ret.op = "index_pages" /\ ret.pagesArg = ps
                                /\ ret.force = force /\ ~ret.raised),
                 !.preEmpty = (pages = {})]

\* remove_page(url)
RemovePage(F) ==
    \E url \in IndexUrls, fault \in F :
        /\ MayFault(fault)
        /\ \E r \in {remove_page(pages, chunks, url, fault)} :
            /\ fault # "none" => (r.raised \/ r.swallowed)
            /\ pages' = r.pages
            /\ chunks' = r.chunks
            /\ faults' = IF r.raised \/ r.swallowed THEN faults + 1 ELSE faults
            /\ UNCHANGED <<crawlVars, searchVars, concVars, fnVars, kbVars>>
            /\ ret' = [NoCall EXCEPT
                 !.op = "remove_page", !.url = url,
                 !.raised = r.raised, !.swallowed = r.swallowed,
                 !.changed = StoreChanged(r),
                 !.repeat = (ret.op = "remove_page" /\ ret.url = url
                                /\ ~ret.raised),
                 !.preEmpty = (pages = {})]

\* remove_domain(domain), for a host name or the empty string
RemoveDomain(F) ==
    \E domain \in Hosts \cup {NoDomain}, fault \in F :
        /\ MayFault(fault)
        /\ \E r \in {remove_domain(pages, chunks, domain, fault)} :
            /\ fault # "none" => r.raised
            /\ pages' = r.pages
            /\ chunks' = r.chunks
            /\ faults' = IF r.raised THEN faults + 1 ELSE faults
            /\ UNCHANGED <<crawlVars, searchVars, concVars, fnVars, kbVars>>
            /\ ret' = [NoCall EXCEPT
                 !.op = "remove_domain", !.domain = domain,
                 !.raised = r.raised,
                 !.changed = StoreChanged(r),
                 !.repeat = (ret.op = "remove_domain" /\ ret.domain = domain
                                /\ ~ret.raised),
                 !.preEmpty = (pages = {})]

(***************************************************************************)
(* DocCrawler                                                              *)
(***************************************************************************)
\* str.rstrip("/"): a URL that ends in its fragment keeps its slash
RStripSlash(u) == IF u.frag THEN u ELSE [u EXCEPT !.slash = FALSE]

\* str.split("#")[0]
StripFragment(u) == [u EXCEPT !.frag = FALSE]

\* urlparse(url).netloc
netloc(u) == u.host

\* DocCrawler.__init__(base_url, max_pages)
DocCrawler(base_url, max_pages) ==
    [base_url |-> RStripSlash(base_url), domain |-> netloc(base_url),
     max_pages |-> max_pages]

\* every sequence over S of length n at most
RECURSIVE SeqsUpTo(_, _)
SeqsUpTo(S, n) ==
    IF n = 0 THEN {<<>>}
    ELSE LET shorter == SeqsUpTo(S, n - 1)
         IN  shorter \cup
             {Append(q, x) : q \in {t \in shorter : Len(t) = n - 1}, x \in S}

\* the loc entries a sitemap can hold, and the anchors (after urljoin) a
\* page can hold
LocUrls == [host : Hosts, path : 0..MaxPath, slash : BOOLEAN, frag : {FALSE}]

HrefUrls == [host : Hosts, path : 0..MaxPath, slash : BOOLEAN, frag : BOOLEAN]

\* for _ in range(min(10, len(queue)))
BatchSize == 10

\* a sitemap of one loc more than a batch holds, so that a URL waits in the
\* queue while the first batch is fetched
LongSitemap == [i \in 1..(BatchSize + 1) |-> MkUrl(HostA, i)]

SitemapLocs == SeqsUpTo(LocUrls, MaxSitemap)

PageHrefs == SeqsUpTo(HrefUrls, MaxLinks)

\* what a request can end with: a non-200 status or an exception, or a
\* body (the loc entries of a sitemap, the anchors of a page)
Failed == [ok |-> FALSE, body |-> <<>>]

Fetched(body) == [ok |-> TRUE, body |-> body]

\* the loc entries kept whatever their host
LocsUnfiltered(locs, domain) == locs

\* [u for u in urls if urlparse(u).netloc == self.domain]
LocsOfDomain(locs, domain) == SelectSeq(locs, LAMBDA u : netloc(u) = domain)

\* DocCrawler._parse_sitemap(sitemap_url)
_parse_sitemap(self, response) ==
    IF ~response.ok THEN <<>> ELSE LocsOfDomain(response.body, self.domain)

\* the links loop of _parse_page, without its host test
RECURSIVE LinksUnfiltered(_, _, _)
LinksUnfiltered(hrefs, domain, links) ==
    IF hrefs = <<>> THEN links
    ELSE LET full == RStripSlash(StripFragment(Head(hrefs)))
         IN  LinksUnfiltered(Tail(hrefs), domain,
                IF full \notin Range(links) THEN Append(links, full) ELSE links)

\* the links loop of _parse_page over the page's anchors
RECURSIVE Links(_, _, _)
Links(hrefs, domain, links) ==
    IF hrefs = <<>> THEN links
    ELSE LET full == RStripSlash(StripFragment(Head(hrefs)))
         IN  Links(Tail(hrefs), domain,
                IF netloc(full) = domain /\ full \notin Range(links)
                THEN Append(links, full) ELSE links)

\* DocCrawler._parse_page(url, html): the record's url and links
_parse_page(self, url, hrefs) ==
    [url |-> url, links |-> Links(hrefs, self.domain, <<>>)]

\* DocCrawler._fetch_page(session, url): <<>> for None, else <<page>>
_fetch_page(self, url, response) ==
    IF ~response.ok THEN <<>> ELSE <<_parse_page(self, url, response.body)>>

Min(a, b) == IF a < b THEN a ELSE b

\* pages[url] = result on a dict kept in insertion order
DictSet(d, url, page) ==
    IF \E i \in 1..Len(d) : d[i].url = url
    THEN [i \in 1..Len(d) |-> IF d[i].url = url THEN page ELSE d[i]]
    ELSE Append(d, page)

Keys(d) == {d[i].url : i \in 1..Len(d)}

\* every link appended to the queue, seen or not
RECURSIVE EnqueueLinksUngated(_, _, _)
EnqueueLinksUngated(links, sn, q) ==
    IF links = <<>> THEN [seen |-> sn, queue |-> q]
    ELSE EnqueueLinksUngated(Tail(links), sn \cup {Head(links)},
                             Append(q, Head(links)))

\* for link in result.get("links", []): the seen / queue update
RECURSIVE EnqueueLinks(_, _, _)
EnqueueLinks(links, sn, q) ==
    IF links = <<>> THEN [seen |-> sn, queue |-> q]
    ELSE IF Head(links) \notin sn
    THEN EnqueueLinks(Tail(links), sn \cup {Head(links)}, Append(q, Head(links)))
    ELSE EnqueueLinks(Tail(links), sn, q)

\* the results handled in the order the fetches ended, from the i-th on
RECURSIVE CollectAsCompleted(_, _, _, _, _, _)
CollectAsCompleted(b, rs, i, d, sn, q) ==
    IF i > Len(completion) THEN [crawled |-> d, seen |-> sn, queue |-> q]
    ELSE LET k == completion[i]
         IN  IF rs[k] = <<>> THEN CollectAsCompleted(b, rs, i + 1, d, sn, q)
             ELSE LET e == EnqueueLinks(rs[k][1].links, sn, q)
                  IN  CollectAsCompleted(b, rs, i + 1,
                            DictSet(d, b[k], rs[k][1]), e.seen, e.queue)

\* the loop of crawl_domain putting a URL whose fetch failed back in the
\* queue
RECURSIVE CollectRetrying(_, _, _, _, _, _)
CollectRetrying(b, rs, i, d, sn, q) ==
    IF i > Len(b) THEN [crawled |-> d, seen |-> sn, queue |-> q]
    ELSE IF rs[i] = <<>>
    THEN CollectRetrying(b, rs, i + 1, d, sn, Append(q, b[i]))
    ELSE LET e == EnqueueLinks(rs[i][1].links, sn, q)
         IN  CollectRetrying(b, rs, i + 1, DictSet(d, b[i], rs[i][1]),
                             e.seen, e.queue)

\* for url, result in zip(batch, results), from position i on
RECURSIVE Collect(_, _, _, _, _, _)
Collect(b, rs, i, d, sn, q) ==
    IF i > Len(b) THEN [crawled |-> d, seen |-> sn, queue |-> q]
    ELSE IF rs[i] = <<>> THEN Collect(b, rs, i + 1, d, sn, q)
    ELSE LET e == EnqueueLinks(rs[i][1].links, sn, q)
         IN  Collect(b, rs, i + 1, DictSet(d, b[i], rs[i][1]), e.seen, e.queue)

Pending == <<[url |-> MkUrl(HostA, 0), links |-> <<>>], "pending">>

CrawlerIdle ==
    /\ crawler = DocCrawler(MkUrl(HostA, 0), 0)
    /\ sitemap_url = FALSE
    /\ cpc = "idle"
    /\ urls_to_crawl = <<>>
    /\ queue = <<>>
    /\ seen = {}
    /\ crawled = <<>>
    /\ batch = <<>>
    /\ results = <<>>
    /\ fetchLog = <<>>
    /\ completion = <<>>
    /\ sitemap_response = Failed

\* a crawler built for https://help.moveworks.com/, about to run
\* crawl_domain with or without a sitemap_url
InitCrawl ==
    /\ \E cap \in 0..MaxCap :
         crawler = DocCrawler([MkUrl(HostA, 0) EXCEPT !.slash = TRUE], cap)
    /\ sitemap_url \in BOOLEAN
    /\ cpc = "start"
    /\ urls_to_crawl = <<>>
    /\ queue = <<>>
    /\ seen = {}
    /\ crawled = <<>>
    /\ batch = <<>>
    /\ results = <<>>
    /\ fetchLog = <<>>
    /\ completion = <<>>
    /\ sitemap_response = Failed

\* crawl_domain up to the while loop; the sitemap request ends with
\* response, a failure or one of the sitemaps
CrawlStartOn(sitemaps) ==
    /\ cpc = "start"
    /\ \E response \in {Failed} \cup {Fetched(locs) : locs \in sitemaps} :
        LET parsed == IF sitemap_url THEN _parse_sitemap(crawler, response)
                      ELSE <<>>
            urls == IF parsed = <<>> THEN <<crawler.base_url>> ELSE parsed
        IN  /\ sitemap_url \/ response = Failed
            /\ urls_to_crawl' = urls
            /\ queue' = urls
            /\ seen' = Range(urls)
            /\ crawled' = <<>>
            /\ sitemap_response' = response
    /\ cpc' = "loop"
    /\ UNCHANGED <<crawler, sitemap_url, batch, results, fetchLog, completion>>
    /\ UNCHANGED <<indexerVars, searchVars, concVars, fnVars, kbVars>>

\* the while test; when it holds, the batch is popped and its requests sent
CrawlBatch ==
    /\ cpc = "loop"
    /\ queue # <<>> /\ Len(crawled) < crawler.max_pages
    /\ LET n == Min(BatchSize, Len(queue))
       IN  /\ batch' = SubSeq(queue, 1, n)
           /\ queue' = SubSeq(queue, n + 1, Len(queue))
           /\ results' = [i \in 1..n |-> Pending]
           /\ fetchLog' = fetchLog \o SubSeq(queue, 1, n)
           /\ completion' = <<>>
    /\ cpc' = "gather"
    /\ UNCHANGED <<crawler, sitemap_url, urls_to_crawl, seen, crawled,
                   sitemap_response>>
    /\ UNCHANGED <<indexerVars, searchVars, concVars, fnVars, kbVars>>

\* what a request of a crawl seeded with urls can end with: a failure, or
\* a page with its anchors
CrawlResponses(urls) ==
    {Failed} \cup
    {Fetched(h) : h \in SeqsUpTo(HrefUrls, IF Len(urls) > MaxSitemap
                                            THEN MaxLongLinks ELSE MaxLinks)}

\* one request of the batch ends, in any order: its _fetch_page task
\* returns, while crawl_domain waits in asyncio.gather for the others
FetchDone ==
    /\ cpc = "gather"
    /\ \E i \in 1..Len(batch) :
        /\ results[i] = Pending
        /\ \E response \in CrawlResponses(urls_to_crawl) :
            results' = [results EXCEPT
                           ![i] = _fetch_page(crawler, batch[i], response)]
        /\ completion' = IF Len(batch) <= MaxLogged THEN Append(completion, i)
                          ELSE completion
    /\ UNCHANGED <<crawler, sitemap_url, cpc, urls_to_crawl, queue, seen,
                   crawled, batch, fetchLog, sitemap_response>>
    /\ UNCHANGED <<indexerVars, searchVars, concVars, fnVars, kbVars>>

\* gather returns: the results are recorded and their links enqueued
CrawlCollect ==
    /\ cpc = "gather"
    /\ \A i \in 1..Len(batch) : results[i] # Pending
    /\ LET c == Collect(batch, results, 1, crawled, seen, queue)
       IN  /\ crawled' = c.crawled
           /\ seen' = c.seen
           /\ queue' = c.queue
    /\ cpc' = "loop"
    /\ UNCHANGED <<crawler, sitemap_url, urls_to_crawl, batch, results, fetchLog,
                   sitemap_response, completion>>
    /\ UNCHANGED <<indexerVars, searchVars, concVars, fnVars, kbVars>>

\* the while test fails: return pages
CrawlReturn ==
    /\ cpc = "loop"
    /\ ~(queue # <<>> /\ Len(crawled) < crawler.max_pages)
    /\ cpc' = "done"
    /\ UNCHANGED <<crawler, sitemap_url, urls_to_crawl, queue, seen, crawled,
                   batch, results, fetchLog, sitemap_response, completion>>
    /\ UNCHANGED <<indexerVars, searchVars, concVars, fnVars, kbVars>>

CrawlStart == CrawlStartOn(SitemapLocs)

\* crawl_domain up to the while loop, on the sitemap longer than a batch
CrawlStartLong == sitemap_url /\ CrawlStartOn({LongSitemap})

NextCrawl == CrawlStart \/ CrawlBatch \/ FetchDone \/ CrawlCollect \/ CrawlReturn

(***************************************************************************)
(* DocCrawler.crawl_multiple                                               *)
(***************************************************************************)
\* the lists crawl_multiple is called with: n URLs of the base domain that
\* repeat with period m; a list that names a URL twice has MaxMultiRepeat
\* URLs at most
MultiUrlLists ==
    {urls \in {[i \in 1..n |-> MkUrl(HostA, i % m)] :
                    n \in 0..MaxMulti, m \in 1..(MaxMulti + 1)} :
        \/ Len(urls) <= MaxMultiRepeat
        \/ \A i, j \in 1..Len(urls) : urls[i] = urls[j] => i = j}

MultiResponses ==
    {Failed} \cup {Fetched(h) : h \in SeqsUpTo(HrefUrls, MaxMultiLinks)}

\* for url, result in zip(urls, results), from position i on
RECURSIVE MultiCollect(_, _, _, _)
MultiCollect(urls, rs, i, d) ==
    IF i > Len(urls) THEN d
    ELSE IF rs[i] = <<>> THEN MultiCollect(urls, rs, i + 1, d)
    ELSE MultiCollect(urls, rs, i + 1, DictSet(d, urls[i], rs[i][1]))

\* a crawler built for https://help.moveworks.com/, about to run
\* crawl_multiple(urls)
InitMulti ==
    /\ crawler = DocCrawler([MkUrl(HostA, 0) EXCEPT !.slash = TRUE], MaxCap)
    /\ sitemap_url = FALSE
    /\ cpc = "multi"
    /\ urls_to_crawl \in MultiUrlLists
    /\ queue = <<>>
    /\ seen = {}
    /\ crawled = <<>>
    /\ batch = <<>>
    /\ results = <<>>
    /\ fetchLog = <<>>
    /\ completion = <<>>
    /\ sitemap_response = Failed

\* tasks = [self._fetch_page(session, url) for url in urls], handed to
\* gather: every request is sent
MultiStart ==
    /\ cpc = "multi"
    /\ batch' = urls_to_crawl
    /\ results' = [i \in 1..Len(urls_to_crawl) |-> Pending]
    /\ fetchLog' = urls_to_crawl
    /\ cpc' = "multi_gather"
    /\ UNCHANGED <<crawler, sitemap_url, urls_to_crawl, queue, seen, crawled,
                   sitemap_response, completion>>
    /\ UNCHANGED <<indexerVars, searchVars, concVars, fnVars, kbVars>>

\* one request of crawl_multiple ends: its _fetch_page task returns, while
\* crawl_multiple waits in asyncio.gather for the others
MultiFetchDone ==
    /\ cpc = "multi_gather"
    /\ \E i \in 1..Len(batch) :
        /\ results[i] = Pending
        /\ \E response \in MultiResponses :
            results' = [results EXCEPT
                           ![i] = _fetch_page(crawler, batch[i], response)]
    /\ UNCHANGED <<crawler, sitemap_url, cpc, urls_to_crawl, queue, seen,
                   crawled, batch, fetchLog, sitemap_response, completion>>
    /\ UNCHANGED <<indexerVars, searchVars, concVars, fnVars, kbVars>>

\* await asyncio.gather(*tasks, return_exceptions=True) returns, every
\* task having ended
MultiGather ==
    /\ cpc = "multi_gather"
    /\ \A i \in 1..Len(batch) : results[i] # Pending
    /\ cpc' = "multi_zip"
    /\ UNCHANGED <<crawler, sitemap_url, urls_to_crawl, queue, seen, crawled,
                   batch, results, fetchLog, sitemap_response, completion>>
    /\ UNCHANGED <<indexerVars, searchVars, concVars, fnVars, kbVars>>

\* the loop over zip(urls, results), and return pages
MultiReturn ==
    /\ cpc = "multi_zip"
    /\ crawled' = MultiCollect(batch, results, 1, <<>>)
    /\ cpc' = "multi_done"
    /\ UNCHANGED <<crawler, sitemap_url, urls_to_crawl, queue, seen, batch,
                   results, fetchLog, sitemap_response, completion>>
    /\ UNCHANGED <<indexerVars, searchVars, concVars, fnVars, kbVars>>

NextMulti == MultiStart \/ MultiFetchDone \/ MultiGather \/ MultiReturn

(***************************************************************************)
(* DocCrawler.crawl_url                                                    *)
(***************************************************************************)
\* a crawler built for https://help.moveworks.com/, about to run
\* crawl_url(url) for a URL of either host
InitUrl ==
    /\ crawler = DocCrawler([MkUrl(HostA, 0) EXCEPT !.slash = TRUE], MaxCap)
    /\ sitemap_url = FALSE
    /\ cpc = "url"
    /\ urls_to_crawl \in {<<u>> : u \in LocUrls}
    /\ queue = <<>>
    /\ seen = {}
    /\ crawled = <<>>
    /\ batch = <<>>
    /\ results = <<>>
    /\ fetchLog = <<>>
    /\ completion = <<>>
    /\ sitemap_response = Failed

\* crawl_url up to its request: _fetch_page sends session.get(url) and waits
CrawlUrl ==
    /\ cpc = "url"
    /\ batch' = urls_to_crawl
    /\ results' = <<Pending>>
    /\ fetchLog' = urls_to_crawl
    /\ cpc' = "url_wait"
    /\ UNCHANGED <<crawler, sitemap_url, urls_to_crawl, queue, seen, crawled,
                   sitemap_response, completion>>
    /\ UNCHANGED <<indexerVars, searchVars, concVars, fnVars, kbVars>>

\* the request ends: return await self._fetch_page(session, url)
CrawlUrlReturn ==
    /\ cpc = "url_wait"
    /\ \E response \in {Failed} \cup {Fetched(h) : h \in PageHrefs} :
        results' = <<_fetch_page(crawler, urls_to_crawl[1], response)>>
    /\ cpc' = "url_done"
    /\ UNCHANGED <<crawler, sitemap_url, urls_to_crawl, queue, seen, crawled,
                   batch, fetchLog, sitemap_response, completion>>
    /\ UNCHANGED <<indexerVars, searchVars, concVars, fnVars, kbVars>>

(***************************************************************************)
(* URL strings and their normalization                                     *)
(*                                                                         *)
(* A URL string is the sequence of its pieces: the scheme, the host, then  *)
(* "/" and path segments, "?" and the query, "#" and the fragment.         *)
(***************************************************************************)
\* the query of a URL: none, one, and one that ends in a slash
Queries == {<<>>, <<"?", "page=2">>, <<"?", "next=", "/">>}

Fragments == {<<>>, <<"#", "top">>}

UrlParts ==
    [host : Hosts, path : 0..MaxSegments, slash : BOOLEAN, query : Queries,
     frag : Fragments]

\* the URL string with these parts
UrlString(u) ==
    <<"https://", u.host>>
        \o [i \in 1..(2 * u.path) |-> IF i % 2 = 1 THEN "/" ELSE "docs"]
        \o (IF u.slash THEN <<"/">> ELSE <<>>)
        \o u.query \o u.frag

\* the position of the first piece c in s, Len(s) + 1 when there is none
Find(s, c) ==
    IF \E i \in DOMAIN s : s[i] = c
    THEN CHOOSE i \in DOMAIN s : s[i] = c /\ \A j \in 1..(i - 1) : s[j] # c
    ELSE Len(s) + 1

\* str.split("#")[0]
BeforeFragment(s) == SubSeq(s, 1, Find(s, "#") - 1)

\* str.rstrip("/")
RECURSIVE rstrip(_)
rstrip(s) ==
    IF s # <<>> /\ s[Len(s)] = "/" THEN rstrip(SubSeq(s, 1, Len(s) - 1))
    ELSE s

\* _parse_page: urljoin(url, a["href"]).split("#")[0].rstrip("/"), on the
\* absolute URL urljoin gives
NormalizedLink(joined) == rstrip(BeforeFragment(joined))

\* urlunparse((parsed.scheme, parsed.netloc, parsed.path, '', '', ''))
SchemeHostPath(s) ==
    LET noFragment == BeforeFragment(s)
    IN  SubSeq(noFragment, 1, Find(noFragment, "?") - 1)

\* tools.docs_crawler.normalize_url
normalize_url(url) == rstrip(SchemeHostPath(url))

Normalizers == {"_parse_page", "normalize_url"}

Normalize(f, url) ==
    IF f = "_parse_page" THEN NormalizedLink(url) ELSE normalize_url(url)

\* one of the two normalizations, about to be applied to a URL string
InitNormalize ==
    /\ fn \in Normalizers
    /\ arg \in {UrlString(u) : u \in UrlParts}
    /\ out = <<>>

\* the normalization applied to the URL, then to its own result
NormalizeUrl ==
    /\ fn \in Normalizers
    /\ Len(out) < MaxApply
    /\ out' = Append(out, Normalize(fn, IF out = <<>> THEN arg
                                        ELSE out[Len(out)]))
    /\ UNCHANGED <<fn, arg>>
    /\ UNCHANGED <<indexerVars, crawlVars, searchVars, concVars, kbVars>>

(***************************************************************************)
(* DocCrawler._extract_breadcrumb                                          *)
(*                                                                         *)
(* A text is the sequence of its characters; the scheme, the host and the  *)
(* separator " > " count as one character each.                            *)
(***************************************************************************)
PathChars == {"/", "a", "B", "-", "_"}

\* the URLs of one host whose path is empty or starts with "/"
BreadcrumbUrls ==
    {<<"https://", HostA>> \o path :
        path \in {q \in SeqsUpTo(PathChars, MaxPathChars) :
                        q = <<>> \/ q[1] = "/"}}

\* what the selectors of the strategies 1 and 2 find in the page:
\* breadcrumb_el is <<>> without a breadcrumb element, else <<parts>>;
\* sidebar is <<>> without an active sidebar item, else <<path_parts>>
Soups ==
    [breadcrumb_el : {<<>>, << <<>> >>, << << <<"Home">>, <<"Docs">> >> >>},
     sidebar : {<<>>, << << <<"Guide">> >> >>,
                << << <<"Setup">>, <<"Guide">> >> >>}]

\* urlparse(url).path
UrlPath(url) == SubSeq(url, 3, Len(url))

\* str.lstrip("/")
RECURSIVE lstrip(_)
lstrip(t) == IF t # <<>> /\ t[1] = "/" THEN lstrip(Tail(t)) ELSE t

\* str.strip("/")
strip(t) == rstrip(lstrip(t))

\* str.split("/")
RECURSIVE split(_)
split(t) ==
    LET c == Find(t, "/")
    IN  IF c > Len(t) THEN <<t>>
        ELSE <<SubSeq(t, 1, c - 1)>> \o split(SubSeq(t, c + 1, Len(t)))

\* p.replace("-", " ").replace("_", " ")
replace(t) == [i \in DOMAIN t |-> IF t[i] \in {"-", "_"} THEN " " ELSE t[i]]

Letters == {"a", "A", "b", "B"}

upper(c) == CASE c = "a" -> "A" [] c = "b" -> "B" [] OTHER -> c

lower(c) == CASE c = "A" -> "a" [] c = "B" -> "b" [] OTHER -> c

\* str.title(): a letter after a non-letter is upper-cased, the other
\* letters are lower-cased
title(t) ==
    [i \in DOMAIN t |->
        IF i = 1 \/ t[i - 1] \notin Letters THEN upper(t[i]) ELSE lower(t[i])]

\* " > ".join(parts)
RECURSIVE join(_)
join(parts) ==
    IF parts = <<>> THEN <<>>
    ELSE IF Len(parts) = 1 THEN parts[1]
    ELSE parts[1] \o <<" > ">> \o join(Tail(parts))

\* [p.replace(...).title() for p in path.split("/") if p]
PathParts(url) ==
    LET path == strip(UrlPath(url))
        kept == SelectSeq(split(path), LAMBDA x : x # <<>>)
    IN  [i \in DOMAIN kept |-> title(replace(kept[i]))]

\* DocCrawler._extract_breadcrumb(soup, url)
_extract_breadcrumb(soup, url) ==
    IF soup.breadcrumb_el # <<>> /\ soup.breadcrumb_el[1] # <<>>
    THEN join(soup.breadcrumb_el[1])
    ELSE IF soup.sidebar # <<>> /\ Len(soup.sidebar[1]) > 1
    THEN join(soup.sidebar[1])
    ELSE IF PathParts(url) # <<>> THEN join(PathParts(url)) ELSE url

\* _parse_page about to derive the breadcrumb of a fetched page
InitBreadcrumb ==
    /\ fn = "_extract_breadcrumb"
    /\ arg \in [soup : Soups, url : BreadcrumbUrls]
    /\ out = <<>>

\* breadcrumb = self._extract_breadcrumb(soup, url)
ExtractBreadcrumb ==
    /\ fn = "_extract_breadcrumb"
    /\ out = <<>>
    /\ out' = <<_extract_breadcrumb(arg.soup, arg.url)>>
    /\ UNCHANGED <<fn, arg>>
    /\ UNCHANGED <<indexerVars, crawlVars, searchVars, concVars, kbVars>>

(***************************************************************************)
(* KBSearch                                                                *)
(*                                                                         *)
(* A score or a distance is a fixed-point integer, One standing for 1.0.   *)
(***************************************************************************)
\* round(score, 4): a rounded score counts 1/RoundUnit
RoundUnit == 10000

One == 100 * RoundUnit

\* the distances of the cosine space, 0.0 to 2.0
Distances == {(i * 2 * One) \div MaxDistSteps : i \in 0..MaxDistSteps}

\* the scores BM25Okapi.get_scores can give a document
Bm25Scores == (0 - 1)..MaxBm25

\* round(x, 4): to the nearest 1/RoundUnit, a tie to the even one
Round4(x) ==
    LET step == One \div RoundUnit
        q == x \div step
        r == x % step
    IN  IF 2 * r > step \/ (2 * r = step /\ q % 2 = 1) THEN q + 1 ELSE q

\* min(top_k * 4, 40)
NResultsFactor == 4

NResultsCap == 40

\* url_scores[url] * 0.7 + bm25_score * 0.3, in tenths
DenseWeight == 7

Bm25Weight == 3

\* x put in front of the elements whose key equals x's
RECURSIVE InsertBeforeEqual(_, _)
InsertBeforeEqual(s, x) ==
    IF s = <<>> THEN <<x>>
    ELSE IF x.key <= Head(s).key THEN <<x>> \o s
    ELSE <<Head(s)>> \o InsertBeforeEqual(Tail(s), x)

\* s, sorted by key, with x put behind the elements whose key is not above
\* x's
RECURSIVE Insert(_, _)
Insert(s, x) ==
    IF s = <<>> THEN <<x>>
    ELSE IF x.key < Head(s).key THEN <<x>> \o s
    ELSE <<Head(s)>> \o Insert(Tail(s), x)

\* sorted(s, key): a stable sort of records by their key, smallest first
RECURSIVE Sorted(_)
Sorted(s) ==
    IF s = <<>> THEN <<>>
    ELSE Insert(Sorted(SubSeq(s, 1, Len(s) - 1)), s[Len(s)])

\* chunks.query(query_embeddings, n_results, include): the n_results
\* chunks nearest to the query, nearest first; dist gives every stored
\* chunk's distance to the query embedding
Query(C, dist, n_results) ==
    LET hits == [i \in 1..Cardinality(C) |->
                    [metadata |-> SetToSeq(C)[i].metadata,
                     distance |-> dist[SetToSeq(C)[i].id],
                     key |-> dist[SetToSeq(C)[i].id]]]
    IN  Take(Sorted(hits), n_results)

\* the dense phase keeping the first score seen for a URL
RECURSIVE DenseFirstHit(_, _)
DenseFirstHit(hits, scores) ==
    IF hits = <<>> THEN scores
    ELSE LET url == Head(hits).metadata.parent_url
             entry == [url |-> url, score |-> One - Head(hits).distance,
                       meta |-> Head(hits).metadata]
         IN  DenseFirstHit(Tail(hits),
                IF \E i \in 1..Len(scores) : scores[i].url = url
                THEN scores ELSE Append(scores, entry))

\* the dense phase: for meta, dist in zip(metadatas, distances)
RECURSIVE Dense(_, _)
Dense(hits, scores) ==
    IF hits = <<>> THEN scores
    ELSE LET url == Head(hits).metadata.parent_url
             score == One - Head(hits).distance
             entry == [url |-> url, score |-> score, meta |-> Head(hits).metadata]
         IN  Dense(Tail(hits),
                IF \E i \in 1..Len(scores) : scores[i].url = url
                THEN [i \in 1..Len(scores) |->
                        IF scores[i].url = url /\ score > scores[i].score
                        THEN entry ELSE scores[i]]
                ELSE Append(scores, entry))

RECURSIVE MaxOf(_)
MaxOf(s) == IF Len(s) = 1 THEN s[1] ELSE LET m == MaxOf(Tail(s))
                                         IN  IF s[1] > m THEN s[1] ELSE m

\* content.lower().split() of a loaded text has no word
NoWords(doc) == IsBlank(doc)

\* what bm25.get_scores can give for the loaded texts: a text without words
\* scores 0
ScoresFor(texts) ==
    {scores \in [1..Len(texts) -> Bm25Scores] :
        \A i \in 1..Len(texts) : NoWords(texts[i]) => scores[i] = 0}

\* KBSearch._bm25_search(query, candidate_urls) from BM25Okapi(docs) on:
\* texts is the list docs, scores what bm25.get_scores gives for them.
\* BM25Okapi raises ZeroDivisionError for a corpus without a word.
_bm25_search(candidate_urls, texts, scores) ==
    IF candidate_urls = <<>> THEN [raised |-> FALSE, bm25 |-> <<>>]
    ELSE IF \A i \in 1..Len(texts) : NoWords(texts[i])
    THEN [raised |-> TRUE, bm25 |-> <<>>]
    ELSE LET max_score == IF MaxOf(scores) > 0 THEN MaxOf(scores) ELSE 1
             all == [i \in 1..Len(candidate_urls) |->
                        [url |-> candidate_urls[i], raw |-> scores[i],
                         score |-> (scores[i] * One) \div max_score]]
             kept == SelectSeq(all, LAMBDA e : e.raw > 0)
         IN  [raised |-> FALSE,
              bm25 |-> [i \in 1..Len(kept) |->
                            [url |-> kept[i].url, score |-> kept[i].score]]]

\* every URL with a BM25 entry scored as bm25_score * 0.3 alone
BlendBm25Alone(scores, bm25) ==
    [i \in 1..Len(scores) |->
        IF \E j \in 1..Len(bm25) : bm25[j].url = scores[i].url
        THEN [scores[i] EXCEPT !.score =
                ((CHOOSE b \in Range(bm25) : b.url = scores[i].url).score
                    * Bm25Weight) \div 10]
        ELSE scores[i]]

\* the BM25 share taken off the dense share
BlendSubtracting(scores, bm25) ==
    [i \in 1..Len(scores) |->
        IF \E j \in 1..Len(bm25) : bm25[j].url = scores[i].url
        THEN [scores[i] EXCEPT !.score =
                (scores[i].score * DenseWeight
                    - (CHOOSE b \in Range(bm25) : b.url = scores[i].url).score
                        * Bm25Weight) \div 10]
        ELSE scores[i]]

\* for url, bm25_score in bm25_scores.items()
RECURSIVE Blend(_, _)
Blend(scores, bm25) ==
    IF bm25 = <<>> THEN scores
    ELSE LET b == Head(bm25)
         IN  Blend(
                IF \E i \in 1..Len(scores) : scores[i].url = b.url
                THEN [i \in 1..Len(scores) |->
                        IF scores[i].url = b.url
                        THEN [scores[i] EXCEPT !.score =
                                (scores[i].score * DenseWeight
                                    + b.score * Bm25Weight) \div 10]
                        ELSE scores[i]]
                ELSE Append(scores,
                        [url |-> b.url, score |-> (b.score * Bm25Weight) \div 10,
                         meta |-> [title |-> <<>>, breadcrumb |-> <<>>]]),
                Tail(bm25))

\* sorted(..., reverse=True) without reverse=True
RankedAscending(scores) ==
    Sorted([i \in 1..Len(scores) |->
                [url |-> scores[i].url, score |-> scores[i].score,
                 meta |-> scores[i].meta, key |-> scores[i].score]])

\* sorted(url_scores.keys(), key=lambda u: url_scores[u], reverse=True)
Ranked(scores) ==
    Sorted([i \in 1..Len(scores) |->
                [url |-> scores[i].url, score |-> scores[i].score,
                 meta |-> scores[i].meta, key |-> 0 - scores[i].score]])

\* the loop that builds results from ranked_urls
RECURSIVE Assemble(_, _)
Assemble(ranked, P) ==
    IF ranked = <<>> THEN <<>>
    ELSE LET full_content == get_full_page(P, Head(ranked).url)
         IN  IF full_content = <<>> \/ full_content[1] = <<>>
             THEN Assemble(Tail(ranked), P)
             ELSE <<[url |-> Head(ranked).url,
                     title |-> Head(ranked).meta.title,
                     breadcrumb |-> Head(ranked).meta.breadcrumb,
                     score |-> Round4(Head(ranked).score),
                     content |-> full_content[1]]>>
                  \o Assemble(Tail(ranked), P)

SearchIdle ==
    /\ spc = "idle"
    /\ top_k = 0
    /\ chunk_results = <<>>
    /\ url_scores = <<>>
    /\ docs = <<>>
    /\ bm25_scores = <<>>
    /\ ranked_urls = <<>>
    /\ search_results = <<>>

\* The stores search is run on: some pages indexed on an empty store, and
\* the documents of the URLs in gone deleted with their chunks left behind
\* (remove_page stopped by chunks.get raising).
RECURSIVE DropDocs(_, _, _)
DropDocs(P, C, gone) ==
    IF gone = {} THEN P
    ELSE LET url == CHOOSE u \in gone : TRUE
         IN  DropDocs(remove_page(P, C, url, "get_chunks").pages, C, gone \ {url})

InitSearchOn(inputs) ==
    /\ \E ps \in inputs, gone \in SUBSET IndexUrls :
         LET r == index_pages({}, {}, ps, FALSE, 0, "none")
         IN  /\ gone \subseteq {ps[i].url : i \in 1..Len(ps)}
             /\ pages = DropDocs(r.pages, r.chunks, gone)
             /\ chunks = r.chunks
    /\ ret = NoCall
    /\ faults = 0
    /\ spc = "start"
    /\ top_k = 0
    /\ chunk_results = <<>>
    /\ url_scores = <<>>
    /\ docs = <<>>
    /\ bm25_scores = <<>>
    /\ ranked_urls = <<>>
    /\ search_results = <<>>

InitSearch == InitSearchOn(StoreInputs)

\* search about to run on a store of three pages without breadcrumb, every
\* document in place
InitSearchThree ==
    /\ LET ps == SetToSeq({MkPage(u, 2) : u \in IndexUrls})
           r == index_pages({}, {}, ps, FALSE, 0, "none")
       IN  pages = r.pages /\ chunks = r.chunks
    /\ ret = NoCall
    /\ faults = 0
    /\ spc = "start"
    /\ top_k = 0
    /\ chunk_results = <<>>
    /\ url_scores = <<>>
    /\ docs = <<>>
    /\ bm25_scores = <<>>
    /\ ranked_urls = <<>>
    /\ search_results = <<>>

\* search(query, top_k) up to the end of the dense phase
SearchDense ==
    /\ spc = "start"
    /\ \E k \in 1..MaxTopK, dist \in [{c.id : c \in chunks} -> Distances] :
        LET hits == Query(chunks, dist, Min(k * NResultsFactor, NResultsCap))
        IN  /\ top_k' = k
            /\ chunk_results' = hits
            /\ url_scores' = Dense(hits, <<>>)
    /\ spc' = "dense"
    /\ docs' = <<>>
    /\ bm25_scores' = <<>>
    /\ ranked_urls' = <<>>
    /\ search_results' = <<>>
    /\ snapshot' = [pages |-> pages, chunks |-> chunks]
    /\ UNCHANGED <<indexerVars, crawlVars, calls, fnVars, kbVars>>

\* one pass of _bm25_search's loop over the candidates:
\* content = self.indexer.get_full_page(url) or ""
SearchLoad ==
    /\ spc = "dense"
    /\ Len(docs) < Len(url_scores)
    /\ LET full_content == get_full_page(pages, url_scores[Len(docs) + 1].url)
       IN  docs' = Append(docs, IF full_content = <<>> THEN <<>>
                                ELSE full_content[1])
    /\ UNCHANGED <<spc, top_k, chunk_results, url_scores, bm25_scores,
                   ranked_urls, search_results>>
    /\ UNCHANGED <<indexerVars, crawlVars, concVars, fnVars, kbVars>>

\* search from BM25Okapi(docs) to the sort: the BM25 scores, the blend and
\* ranked_urls; search raises when BM25Okapi does
SearchRank ==
    /\ spc = "dense"
    /\ Len(docs) = Len(url_scores)
    /\ \E scores \in ScoresFor(docs) :
        LET candidate_urls == [i \in 1..Len(url_scores) |-> url_scores[i].url]
            r == _bm25_search(candidate_urls, docs, scores)
            blended == Blend(url_scores, r.bm25)
            ranked == Take(Ranked(blended), top_k)
        IN  IF r.raised
            THEN /\ spc' = "raised"
                 /\ UNCHANGED <<url_scores, bm25_scores, ranked_urls>>
            ELSE /\ url_scores' = blended
                 /\ bm25_scores' = r.bm25
                 /\ ranked_urls' = ranked
                 /\ spc' = IF ranked = <<>> THEN "done" ELSE "ranked"
    /\ UNCHANGED <<top_k, chunk_results, docs, search_results>>
    /\ UNCHANGED <<indexerVars, crawlVars, concVars, fnVars, kbVars>>

\* a search that deletes the document it has read
SearchFetchEvicting ==
    /\ spc = "ranked"
    /\ search_results' = search_results \o Assemble(<<Head(ranked_urls)>>, pages)
    /\ ranked_urls' = Tail(ranked_urls)
    /\ spc' = IF Tail(ranked_urls) = <<>> THEN "done" ELSE "ranked"
    /\ pages' = DeleteIds(pages, {Head(ranked_urls).url})
    /\ UNCHANGED <<top_k, chunk_results, url_scores, docs, bm25_scores>>
    /\ UNCHANGED <<chunks, ret, faults, crawlVars, concVars, fnVars, kbVars>>

\* one pass of the loop over ranked_urls: get_full_page(url), and the
\* result appended unless there is no content; search returns after the
\* last pass
SearchFetch ==
    /\ spc = "ranked"
    /\ search_results' = search_results \o Assemble(<<Head(ranked_urls)>>, pages)
    /\ ranked_urls' = Tail(ranked_urls)
    /\ spc' = IF Tail(ranked_urls) = <<>> THEN "done" ELSE "ranked"
    /\ UNCHANGED <<top_k, chunk_results, url_scores, docs, bm25_scores>>
    /\ UNCHANGED <<indexerVars, crawlVars, concVars, fnVars, kbVars>>

NextSearch == SearchDense \/ SearchLoad \/ SearchRank \/ SearchFetch

(***************************************************************************)
(* index_page called from several threads at once                          *)
(*                                                                         *)
(* KBIndexer takes no lock, so the store calls of two index_page calls     *)
(* interleave freely; a step is one store call of one thread.              *)
(***************************************************************************)
Threads == {1, 2}

ConcUrl == MkUrl(HostA, 1)

\* versions of the page at ConcUrl whose three views are all non-empty
ConcPages ==
    {MkPage(ConcUrl, v) :
        v \in {w \in 1..MaxConcVersion : ~IsBlank(BreadcrumbOf(w))}}

\* the first store call of index_page(page, force)
StartPc(force) == IF force THEN "doc" ELSE "exists"

\* where index_page stands after the loop body of view i
AfterView(i) == CASE i = 0 -> "view1" [] i = 1 -> "view2" [] OTHER -> "done"

ViewOf(pc) == CASE pc = "view0" -> 0 [] pc = "view1" -> 1 [] OTHER -> 2

\* the threads are about to call index_page for ConcUrl, not all with the
\* same page, on a store that is empty or holds one version of the page
InitConc ==
    /\ \E stored \in SUBSET ConcPages :
        /\ Cardinality(stored) <= 1
        /\ pages = {DocRecord(q) : q \in stored}
        /\ chunks = {ChunkRecord(q, i) : q \in stored, i \in 0..2}
    /\ ret = NoCall
    /\ faults = 0
    /\ snapshot = [pages |-> {}, chunks |-> {}]
    /\ \E ps \in [Threads -> ConcPages], fs \in [Threads -> BOOLEAN] :
        /\ \E t, u \in Threads : ps[t] # ps[u]
        /\ calls = [t \in Threads |->
                        [page |-> ps[t], force |-> fs[t],
                         pc |-> StartPc(fs[t]), result |-> <<>>]]

\* if not force and self.page_exists(url): return None
CallExists(t) ==
    /\ calls[t].pc = "exists"
    /\ calls' = [calls EXCEPT ![t].pc =
                    IF page_exists(pages, calls[t].page.url) THEN "done"
                    ELSE "doc"]
    /\ UNCHANGED <<indexerVars, crawlVars, searchVars, snapshot, fnVars, kbVars>>

\* self.pages.upsert(...)
CallDoc(t) ==
    /\ calls[t].pc = "doc"
    /\ pages' = Upsert(pages, DocRecord(calls[t].page))
    /\ calls' = [calls EXCEPT ![t].pc = "view0"]
    /\ UNCHANGED <<chunks, ret, faults, crawlVars, searchVars, snapshot, fnVars, kbVars>>

\* one pass of the loop over the views: self.chunks.upsert(...) unless the
\* view is blank; after the last view index_page returns url
CallView(t) ==
    /\ calls[t].pc \in {"view0", "view1", "view2"}
    /\ LET i == ViewOf(calls[t].pc)
           page == calls[t].page
       IN  /\ chunks' = IF IsBlank(View(page, i)) THEN chunks
                        ELSE Upsert(chunks, ChunkRecord(page, i))
           /\ calls' = [calls EXCEPT
                ![t].pc = AfterView(i),
                ![t].result = IF i = 2 THEN <<page.url>> ELSE <<>>]
    /\ UNCHANGED <<pages, ret, faults, crawlVars, searchVars, snapshot, fnVars, kbVars>>

NextConc == \E t \in Threads : CallExists(t) \/ CallDoc(t) \/ CallView(t)

\* remove_page's first store call: self.pages.delete(ids=[url])
CallDeleteDoc(t) ==
    /\ calls[t].pc = "delete_doc"
    /\ pages' = DeleteIds(pages, {calls[t].page.url})
    /\ calls' = [calls EXCEPT ![t].pc = "get_chunks"]
    /\ UNCHANGED <<chunks, ret, faults, crawlVars, searchVars, snapshot, fnVars, kbVars>>

\* existing = self.chunks.get(where={"parent_url": url}); remove_page
\* returns when there are no ids
CallGetChunks(t) ==
    /\ calls[t].pc = "get_chunks"
    /\ LET existing == IdsWhereParent(chunks, calls[t].page.url)
       IN  calls' = [calls EXCEPT
                ![t].existing = existing,
                ![t].pc = IF existing # {} THEN "delete_chunks" ELSE "done"]
    /\ UNCHANGED <<indexerVars, crawlVars, searchVars, snapshot, fnVars, kbVars>>

\* self.chunks.delete(ids=existing["ids"])
CallDeleteChunks(t) ==
    /\ calls[t].pc = "delete_chunks"
    /\ chunks' = DeleteIds(chunks, calls[t].existing)
    /\ calls' = [calls EXCEPT ![t].pc = "done"]
    /\ UNCHANGED <<pages, ret, faults, crawlVars, searchVars, snapshot, fnVars, kbVars>>

\* the calls of the thread that writes while a search runs:
\* index_page(page, force=True) and remove_page(url), for the URL ConcUrl,
\* which the store the search began on may hold or not
WriterCalls ==
    {[op |-> "index_page", page |-> MkPage(ConcUrl, v), force |-> TRUE,
      pc |-> "doc", result |-> <<>>, existing |-> {}] : v \in 1..MaxVersion}
    \cup
    {[op |-> "remove_page", page |-> MkPage(ConcUrl, 1), force |-> FALSE,
      pc |-> "delete_doc", result |-> <<>>, existing |-> {}]}

(***************************************************************************)
(* The file-based knowledge bases of moveworks_mcp/tools:                  *)
(*   knowledge_base_manager.py  KnowledgeBaseManager                       *)
(*   indexer.py                 index_url, index_multiple_urls,            *)
(*                              remove_indexed_content,                    *)
(*                              refresh_all_indexed_content                *)
(*   kb_tools.py                index_documentation                        *)
(* A knowledge base is a directory: index.json (document_count and the     *)
(* dict documents, in insertion order) and the files under docs/.  A       *)
(* document file is modelled by its name, its url and metadata["source"].  *)
(* Python's None is the string "none".                                     *)
(***************************************************************************)
DEFAULT_KB_NAME == "moveworks_docs"

KbNames == {DEFAULT_KB_NAME, "team_docs"}

KbUrls == {"https://help.moveworks.com/docs/a", "https://example.com/b"}

\* metadata.get("source") of a stored document
DocSources == {"user_indexed", "none"}

\* the directory of a knowledge base that does not exist
NoKb ==
    [exists |-> FALSE, document_count |-> 0, documents |-> <<>>, docs |-> {}]

NoDocument == [found |-> FALSE, url |-> "none", source |-> "none"]

_generate_doc_id(url) == "md5(" \o url \o ")"

kb_exists(k) == k.exists

create_kb(k) ==
    IF kb_exists(k)
    THEN k
    ELSE [exists |-> TRUE, document_count |-> 0, documents |-> <<>>,
          docs |-> {}]

delete_kb(k) == IF kb_exists(k) THEN NoKb ELSE k

\* index["documents"] has the key url
InDocuments(k, url) == \E i \in DOMAIN k.documents : k.documents[i].url = url

\* index["documents"][url]
DocumentsEntry(k, url) ==
    k.documents[CHOOSE i \in DOMAIN k.documents : k.documents[i].url = url]

get_document(k, url) ==
    IF ~kb_exists(k) \/ ~InDocuments(k, url)
    THEN NoDocument
    ELSE LET doc_id == DocumentsEntry(k, url).doc_id IN
         IF \E f \in k.docs : f.doc_id = doc_id
         THEN LET f == CHOOSE f \in k.docs : f.doc_id = doc_id IN
              [found |-> TRUE, url |-> f.url, source |-> f.source]
         ELSE NoDocument

\* the documents of the index whose file is there, in the index's order
get_all_documents(k) ==
    IF ~kb_exists(k)
    THEN <<>>
    ELSE LET all == [i \in DOMAIN k.documents |->
                        get_document(k, k.documents[i].url)]
         IN  SelectSeq(all, LAMBDA doc : doc.found)

\* add_document counting the document whether or not its URL is known
add_document_counting(k, url, source) ==
    LET doc_id == _generate_doc_id(url)
        entry == [url |-> url, doc_id |-> doc_id]
    IN  [exists |-> TRUE,
         docs |-> {f \in k.docs : f.doc_id # doc_id}
                    \cup {[doc_id |-> doc_id, url |-> url, source |-> source]},
         document_count |-> k.document_count + 1,
         documents |->
            IF InDocuments(k, url)
            THEN [i \in DOMAIN k.documents |->
                    IF k.documents[i].url = url THEN entry ELSE k.documents[i]]
            ELSE Append(k.documents, entry)]

\* add_document on a knowledge base that exists
add_document(k, url, source) ==
    LET doc_id == _generate_doc_id(url)
        entry == [url |-> url, doc_id |-> doc_id]
    IN  [exists |-> TRUE,
         docs |-> {f \in k.docs : f.doc_id # doc_id}
                    \cup {[doc_id |-> doc_id, url |-> url, source |-> source]},
         document_count |->
            IF InDocuments(k, url)
            THEN k.document_count
            ELSE k.document_count + 1,
         documents |->
            IF InDocuments(k, url)
            THEN [i \in DOMAIN k.documents |->
                    IF k.documents[i].url = url THEN entry ELSE k.documents[i]]
            ELSE Append(k.documents, entry)]

\* index_url on the default knowledge base k
index_url(k, url, force_reindex) ==
    LET k1 == IF kb_exists(k) THEN k ELSE create_kb(k)
        existing_doc == get_document(k1, url)
    IN  IF existing_doc.found /\ ~force_reindex
        THEN [kb |-> k1, success |-> TRUE, reindexed |-> FALSE]
        ELSE [kb |-> add_document(k1, url, "user_indexed"),
              success |-> TRUE, reindexed |-> existing_doc.found]

\* index_multiple_urls: an item without a url fails IndexUrlParams'
\* validation and counts as failed
RECURSIVE index_multiple_urls(_, _, _)
index_multiple_urls(k, urls, force_reindex_all) ==
    IF urls = <<>>
    THEN [kb |-> k, failed |-> 0, reindexed |-> 0]
    ELSE LET url_data == Head(urls)
             result ==
                IF url_data.url = "none"
                THEN [kb |-> k, success |-> FALSE, reindexed |-> FALSE]
                ELSE index_url(k, url_data.url,
                               force_reindex_all \/ url_data.force_reindex)
             rest == index_multiple_urls(result.kb, Tail(urls),
                                         force_reindex_all)
         IN  [kb |-> rest.kb,
              failed |-> rest.failed + (IF result.success THEN 0 ELSE 1),
              reindexed |->
                rest.reindexed + (IF result.reindexed THEN 1 ELSE 0)]

\* the URL remove_indexed_content looks for
UrlToRemove(k, url, content_id) ==
    IF content_id # "none" /\ url = "none"
    THEN LET all_documents == get_all_documents(k)
             hits == SelectSeq(all_documents,
                        LAMBDA doc : _generate_doc_id(doc.url) = content_id)
         IN  IF hits = <<>> THEN "none" ELSE Head(hits).url
    ELSE url

remove_indexed_content(k, url, content_id) ==
    LET failure == [kb |-> k, success |-> FALSE, removed_url |-> "none"]
        url_to_remove == UrlToRemove(k, url, content_id)
        document == get_document(k, url_to_remove)
    IN  IF url = "none" /\ content_id = "none" THEN failure
        ELSE IF ~kb_exists(k) THEN failure
        ELSE IF url_to_remove = "none" THEN failure
        ELSE IF ~document.found
            THEN [failure EXCEPT !.removed_url = url_to_remove]
        ELSE IF document.source # "user_indexed"
            THEN [failure EXCEPT !.removed_url = url_to_remove]
        ELSE IF InDocuments(k, url_to_remove)
            THEN LET doc_id == DocumentsEntry(k, url_to_remove).doc_id IN
                 [kb |-> [k EXCEPT
                            !.docs = {f \in k.docs : f.doc_id # doc_id},
                            !.documents =
                                SelectSeq(k.documents,
                                    LAMBDA d : d.url # url_to_remove),
                            !.document_count = k.document_count - 1],
                  success |-> TRUE,
                  removed_url |-> url_to_remove]
        ELSE [failure EXCEPT !.removed_url = url_to_remove]

\* url_data of every user-indexed document, for index_multiple_urls
UrlsToRefresh(k) ==
    LET user_indexed_docs ==
            SelectSeq(get_all_documents(k),
                      LAMBDA doc : doc.source = "user_indexed")
    IN  [i \in DOMAIN user_indexed_docs |->
            [url |-> user_indexed_docs[i].url, force_reindex |-> TRUE]]

refresh_all_indexed_content(k, dry_run) ==
    IF ~kb_exists(k) THEN [kb |-> k, success |-> FALSE]
    ELSE IF UrlsToRefresh(k) = <<>> \/ dry_run THEN [kb |-> k, success |-> TRUE]
    ELSE LET result == index_multiple_urls(k, UrlsToRefresh(k), TRUE) IN
         [kb |-> result.kb, success |-> result.failed = 0]

\* step 4 of index_documentation: the pages that came with content are added
RECURSIVE AddPages(_, _, _)
AddPages(k, pages_list, with_content) ==
    IF pages_list = <<>>
    THEN k
    ELSE AddPages(IF Head(pages_list) \in with_content
                  THEN add_document(k, Head(pages_list), "none")
                  ELSE k,
                  Tail(pages_list), with_content)

\* index_documentation on the knowledge base k: sitemap is the list of URLs
\* the sitemap was built with (empty when it could not be built),
\* with_content the pages whose fetch returned content
index_documentation(k, force_refresh, sitemap, max_pages, with_content) ==
    IF kb_exists(k) /\ ~force_refresh
    THEN [kb |-> k, success |-> TRUE, indexed |-> {}, created |-> FALSE]
    ELSE LET k1 == create_kb(delete_kb(k))
             pages_list ==
                SubSeq(sitemap, 1, Min(max_pages, Len(sitemap)))
         IN  IF sitemap = <<>>
             THEN [kb |-> k1, success |-> FALSE, indexed |-> {},
                   created |-> TRUE]
             ELSE [kb |-> AddPages(k1, pages_list, with_content),
                   success |-> TRUE,
                   indexed |-> {pages_list[i] : i \in DOMAIN pages_list}
                                    \cap with_content,
                   created |-> TRUE]

\* the lists index_multiple_urls is called with
UrlData ==
    [url : KbUrls \cup {"none"}, force_reindex : BOOLEAN]

UrlLists ==
    UNION {[1..n -> UrlData] : n \in 0..MaxUrlList}

\* the sitemaps: a dict keyed by URL, so no URL comes twice
Sitemaps ==
    {s \in UNION {[1..n -> KbUrls] : n \in 0..MaxSitemapPages} :
        \A i, j \in DOMAIN s : i # j => s[i] # s[j]}

NoKbCall ==
    [op |-> "none", kb_name |-> "none", url |-> "none", force |-> FALSE,
     success |-> FALSE, crawled |-> FALSE,
     before |-> NoKb]

\* a base_path without knowledge bases, no call made
KbIdle ==
    /\ kbs = [kb \in KbNames |-> NoKb]
    /\ kb_ret = NoKbCall
    /\ crawled_docs = {}

\* KnowledgeBaseManager.add_document called on its own; it raises
\* ValueError when the knowledge base does not exist
KbAddDocument ==
    \E kb_name \in KbNames, url \in KbUrls, source \in DocSources :
        /\ kbs' = IF kb_exists(kbs[kb_name])
                  THEN [kbs EXCEPT
                            ![kb_name] = add_document(@, url, source)]
                  ELSE kbs
        /\ kb_ret' = [NoKbCall EXCEPT !.op = "add_document",
                                      !.kb_name = kb_name,
                                      !.url = url,
                                      !.success = kb_exists(kbs[kb_name]),
                                      !.before = kbs[kb_name]]
        /\ UNCHANGED crawled_docs
        /\ UNCHANGED <<indexerVars, crawlVars, searchVars, concVars, fnVars>>

IndexUrl ==
    \E url \in KbUrls, force_reindex \in BOOLEAN :
        \E r \in {index_url(kbs[DEFAULT_KB_NAME], url, force_reindex)} :
            /\ kbs' = [kbs EXCEPT ![DEFAULT_KB_NAME] = r.kb]
            /\ kb_ret' = [NoKbCall EXCEPT !.op = "index_url",
                                          !.kb_name = DEFAULT_KB_NAME,
                                          !.url = url,
                                          !.force = force_reindex,
                                          !.success = r.success,
                                          !.before = kbs[DEFAULT_KB_NAME]]
            /\ UNCHANGED crawled_docs
            /\ UNCHANGED <<indexerVars, crawlVars, searchVars, concVars,
                           fnVars>>

IndexMultipleUrls ==
    \E urls \in UrlLists, force_reindex_all \in BOOLEAN :
        \E r \in {index_multiple_urls(kbs[DEFAULT_KB_NAME], urls,
                                      force_reindex_all)} :
            /\ kbs' = [kbs EXCEPT ![DEFAULT_KB_NAME] = r.kb]
            /\ kb_ret' = [NoKbCall EXCEPT !.op = "index_multiple_urls",
                                          !.kb_name = DEFAULT_KB_NAME,
                                          !.force = force_reindex_all,
                                          !.success = (r.failed = 0),
                                          !.before = kbs[DEFAULT_KB_NAME]]
            /\ UNCHANGED crawled_docs
            /\ UNCHANGED <<indexerVars, crawlVars, searchVars, concVars,
                           fnVars>>

RefreshAllIndexedContent ==
    \E dry_run \in BOOLEAN :
        \E r \in {refresh_all_indexed_content(kbs[DEFAULT_KB_NAME],
                                              dry_run)} :
            /\ kbs' = [kbs EXCEPT ![DEFAULT_KB_NAME] = r.kb]
            /\ kb_ret' = [NoKbCall EXCEPT
                            !.op = "refresh_all_indexed_content",
                            !.kb_name = DEFAULT_KB_NAME,
                            !.force = ~dry_run,
                            !.success = r.success,
                            !.before = kbs[DEFAULT_KB_NAME]]
            /\ UNCHANGED crawled_docs
            /\ UNCHANGED <<indexerVars, crawlVars, searchVars, concVars,
                           fnVars>>

RemoveIndexedContent ==
    \E url \in KbUrls \cup {"none"},
       content_id \in {_generate_doc_id(u) : u \in KbUrls} \cup {"none"} :
        \E r \in {remove_indexed_content(kbs[DEFAULT_KB_NAME], url,
                                         content_id)} :
            /\ kbs' = [kbs EXCEPT ![DEFAULT_KB_NAME] = r.kb]
            /\ kb_ret' = [NoKbCall EXCEPT
                            !.op = "remove_indexed_content",
                            !.kb_name = DEFAULT_KB_NAME,
                            !.url = r.removed_url,
                            !.success = r.success,
                            !.crawled = r.removed_url \in crawled_docs,
                            !.before = kbs[DEFAULT_KB_NAME]]
            /\ crawled_docs' = IF r.success
                               THEN crawled_docs \ {r.removed_url}
                               ELSE crawled_docs
            /\ UNCHANGED <<indexerVars, crawlVars, searchVars, concVars,
                           fnVars>>

IndexDocumentation ==
    \E kb_name \in KbNames, force_refresh \in BOOLEAN, sitemap \in Sitemaps,
       max_pages \in 1..MaxSitemapPages, with_content \in SUBSET KbUrls :
        \E r \in {index_documentation(kbs[kb_name], force_refresh, sitemap,
                                      max_pages, with_content)} :
            /\ kbs' = [kbs EXCEPT ![kb_name] = r.kb]
            /\ kb_ret' = [NoKbCall EXCEPT !.op = "index_documentation",
                                          !.kb_name = kb_name,
                                          !.force = force_refresh,
                                          !.success = r.success,
                                          !.before = kbs[kb_name]]
            /\ crawled_docs' = IF kb_name = DEFAULT_KB_NAME /\ r.created
                               THEN r.indexed
                               ELSE crawled_docs
            /\ UNCHANGED <<indexerVars, crawlVars, searchVars, concVars,
                           fnVars>>

\* the tool delete_knowledge_base: success=False when the knowledge base
\* is not found, else delete_kb removes its directory
DeleteKnowledgeBase ==
    \E kb_name \in KbNames :
        /\ kbs' = [kbs EXCEPT ![kb_name] = delete_kb(@)]
        /\ kb_ret' = [NoKbCall EXCEPT !.op = "delete_knowledge_base",
                                      !.kb_name = kb_name,
                                      !.success = kb_exists(kbs[kb_name]),
                                      !.before = kbs[kb_name]]
        /\ crawled_docs' = IF kb_name = DEFAULT_KB_NAME
                           THEN {}
                           ELSE crawled_docs
        /\ UNCHANGED <<indexerVars, crawlVars, searchVars, concVars, fnVars>>

\* the tools of tools/indexer.py, index_documentation and
\* delete_knowledge_base, one call at a time
NextTools ==
    \/ IndexUrl
    \/ IndexMultipleUrls
    \/ RefreshAllIndexedContent
    \/ RemoveIndexedContent
    \/ IndexDocumentation
    \/ DeleteKnowledgeBase

\* add_document, index_url and remove_indexed_content, one call at a time
NextKb == KbAddDocument \/ IndexUrl \/ RemoveIndexedContent

\* no search has begun, no index_page call is in progress
FnIdle ==
    /\ fn = "none"
    /\ arg = <<>>
    /\ out = <<>>

ConcIdle ==
    /\ snapshot = [pages |-> {}, chunks |-> {}]
    /\ calls = <<>>

NoFault == {"none"}

\* The indexer called with one page or URL at a time; store and embedder
\* calls may raise.
NextIndexer ==
    \/ IndexPage(NoFault \cup IndexFaults)
    \/ RemovePage(NoFault \cup RemovePageFaults)
    \/ RemoveDomain(NoFault \cup RemoveDomainFaults)

InitIndexer ==
    IndexerIdle /\ CrawlerIdle /\ SearchIdle /\ ConcIdle /\ FnIdle
    /\ KbIdle

Spec == InitIndexer /\ [][NextIndexer]_vars

\* The indexer called with batches of pages, on a store that answers.
NextBatch ==
    \/ IndexPages(NoFault)
    \/ IndexPage(NoFault)
    \/ RemovePage(NoFault)
    \/ RemoveDomain(NoFault)

SpecBatch == InitIndexer /\ [][NextBatch]_vars

InitCrawler ==
    IndexerIdle /\ InitCrawl /\ SearchIdle /\ ConcIdle /\ FnIdle
    /\ KbIdle

SpecCrawl == InitCrawler /\ [][NextCrawl]_vars

\* crawl_domain on an event loop that keeps running its tasks: every step
\* that can be taken is taken, and every request sent ends
SpecCrawlLive == InitCrawler /\ [][NextCrawl]_vars /\ WF_vars(NextCrawl)

\* a crawler about to run crawl_domain, crawl_multiple or crawl_url
InitFetcher ==
    /\ IndexerIdle /\ SearchIdle /\ ConcIdle /\ FnIdle /\ KbIdle
    /\ (InitCrawl \/ InitMulti \/ InitUrl)

NextFetch ==
    NextCrawl \/ CrawlStartLong \/ NextMulti \/ CrawlUrl \/ CrawlUrlReturn

SpecFetch == InitFetcher /\ [][NextFetch]_vars

InitSearcher == InitSearch /\ CrawlerIdle /\ ConcIdle /\ FnIdle /\ KbIdle

\* A search on a small store, with the store calls of index_page(force=True)
\* and remove_page calls of another thread between its own store calls.
InitOverlap ==
    /\ InitSearchOn({ps \in StoreInputs : Len(ps) <= MaxOverlapPages})
    /\ CrawlerIdle
    /\ ConcIdle
    /\ FnIdle
    /\ KbIdle

\* the writing thread begins a call, while the search has not returned
OverlapCall ==
    /\ spc \notin {"done", "raised"}
    /\ Len(calls) < MaxOverlapCalls
    /\ \A t \in DOMAIN calls : calls[t].pc = "done"
    /\ \E call \in WriterCalls : calls' = Append(calls, call)
    /\ UNCHANGED <<indexerVars, crawlVars, searchVars, snapshot, fnVars, kbVars>>

\* the writing thread makes the next store call of its call
OverlapWrite ==
    /\ spc \notin {"done", "raised"}
    /\ \E t \in DOMAIN calls :
        \/ CallDoc(t)
        \/ CallView(t)
        \/ CallDeleteDoc(t)
        \/ CallGetChunks(t)
        \/ CallDeleteChunks(t)

NextOverlap == NextSearch \/ OverlapCall \/ OverlapWrite

SpecOverlap == InitOverlap /\ [][NextOverlap]_vars

(***************************************************************************)
(* Every operation on one store, one call at a time                        *)
(***************************************************************************)
\* no call of search or of the crawler is under way
Quiet == cpc = "idle" /\ spc = "idle"

\* a call of a reader of the store or of the crawler can begin
ReaderMayBegin == Quiet /\ Cardinality(pages) <= MaxFramePages

\* the operations that write to the store
WriteOps == {"index_page", "index_pages", "remove_page", "remove_domain"}

\* the operations of KBSearch and DocCrawler and the indexer's readers
ReadOps ==
    {"search", "list_pages", "get_full_page", "page_exists", "crawl_url",
     "crawl_multiple", "crawl_domain"}

\* a call of index_page, index_pages, remove_page or remove_domain
FrameWrite ==
    /\ ReaderMayBegin
    /\ \/ IndexPage(NoFault)
       \/ IndexPages(NoFault)
       \/ RemovePage(NoFault)
       \/ RemoveDomain(NoFault)

\* list_pages(domain): pages.get, with the where filter or without
ListPages ==
    /\ ReaderMayBegin
    /\ \E domain \in Hosts \cup {NoDomain} :
        ret' = [NoCall EXCEPT !.op = "list_pages", !.domain = domain,
                              !.result = list_pages(pages, domain)]
    /\ UNCHANGED <<pages, chunks, faults>>
    /\ UNCHANGED <<crawlVars, searchVars, concVars, fnVars, kbVars>>

\* get_full_page(url): pages.get(ids=[url])
GetFullPage ==
    /\ ReaderMayBegin
    /\ \E url \in IndexUrls :
        ret' = [NoCall EXCEPT !.op = "get_full_page", !.url = url,
                              !.result = get_full_page(pages, url)]
    /\ UNCHANGED <<pages, chunks, faults>>
    /\ UNCHANGED <<crawlVars, searchVars, concVars, fnVars, kbVars>>

\* page_exists(url): pages.get(ids=[url])
PageExists ==
    /\ ReaderMayBegin
    /\ \E url \in IndexUrls :
        ret' = [NoCall EXCEPT !.op = "page_exists", !.url = url,
                              !.result = <<page_exists(pages, url)>>]
    /\ UNCHANGED <<pages, chunks, faults>>
    /\ UNCHANGED <<crawlVars, searchVars, concVars, fnVars, kbVars>>

\* search(query, top_k) is called
SearchCall ==
    /\ ReaderMayBegin
    /\ spc' = "start"
    /\ ret' = [NoCall EXCEPT !.op = "search"]
    /\ UNCHANGED <<top_k, chunk_results, url_scores, docs, bm25_scores,
                   ranked_urls, search_results>>
    /\ UNCHANGED <<pages, chunks, faults>>
    /\ UNCHANGED <<crawlVars, concVars, fnVars, kbVars>>

\* search has returned or raised: its locals are gone
SearchEnd ==
    /\ spc \in {"done", "raised"}
    /\ spc' = "idle"
    /\ top_k' = 0
    /\ chunk_results' = <<>>
    /\ url_scores' = <<>>
    /\ docs' = <<>>
    /\ bm25_scores' = <<>>
    /\ ranked_urls' = <<>>
    /\ search_results' = <<>>
    /\ snapshot' = [pages |-> {}, chunks |-> {}]
    /\ UNCHANGED <<indexerVars, crawlVars, calls, fnVars, kbVars>>

\* DocCrawler(base_url, max_pages).crawl_domain(sitemap_url), crawl_multiple
\* (urls) or crawl_url(url) is called
CrawlerCall ==
    /\ ReaderMayBegin
    /\ \/ /\ \E cap \in 0..MaxCap :
                crawler' = DocCrawler([MkUrl(HostA, 0) EXCEPT !.slash = TRUE], cap)
          /\ sitemap_url' \in BOOLEAN
          /\ urls_to_crawl' = <<>>
          /\ cpc' = "start"
          /\ ret' = [NoCall EXCEPT !.op = "crawl_domain"]
       \/ /\ crawler' = DocCrawler([MkUrl(HostA, 0) EXCEPT !.slash = TRUE], MaxCap)
          /\ sitemap_url' = FALSE
          /\ urls_to_crawl' \in {urls \in MultiUrlLists : Len(urls) <= MaxMultiRepeat}
          /\ cpc' = "multi"
          /\ ret' = [NoCall EXCEPT !.op = "crawl_multiple"]
       \/ /\ crawler' = DocCrawler([MkUrl(HostA, 0) EXCEPT !.slash = TRUE], MaxCap)
          /\ sitemap_url' = FALSE
          /\ urls_to_crawl' \in {<<u>> : u \in LocUrls}
          /\ cpc' = "url"
          /\ ret' = [NoCall EXCEPT !.op = "crawl_url"]
    /\ UNCHANGED <<queue, seen, crawled, batch, results, fetchLog, completion,
                   sitemap_response>>
    /\ UNCHANGED <<pages, chunks, faults>>
    /\ UNCHANGED <<searchVars, concVars, fnVars, kbVars>>

\* the crawler's call has returned: its locals are gone
CrawlerEnd ==
    /\ cpc \in {"done", "multi_done", "url_done"}
    /\ crawler' = DocCrawler(MkUrl(HostA, 0), 0)
    /\ sitemap_url' = FALSE
    /\ cpc' = "idle"
    /\ urls_to_crawl' = <<>>
    /\ queue' = <<>>
    /\ seen' = {}
    /\ crawled' = <<>>
    /\ batch' = <<>>
    /\ results' = <<>>
    /\ fetchLog' = <<>>
    /\ completion' = <<>>
    /\ sitemap_response' = Failed
    /\ UNCHANGED <<indexerVars, searchVars, concVars, fnVars, kbVars>>

NextFrame ==
    \/ FrameWrite
    \/ ListPages \/ GetFullPage \/ PageExists
    \/ SearchCall \/ NextSearch \/ SearchEnd
    \/ CrawlerCall \/ NextCrawl \/ NextMulti \/ CrawlUrl \/ CrawlUrlReturn
    \/ CrawlerEnd

SpecFrame == InitIndexer /\ [][NextFrame]_vars

\* a URL normalization applied on its own
InitNormalizer ==
    IndexerIdle /\ CrawlerIdle /\ SearchIdle /\ ConcIdle /\ InitNormalize
    /\ KbIdle

SpecNormalize == InitNormalizer /\ [][NormalizeUrl]_vars

\* _extract_breadcrumb applied on its own
InitBreadcrumbs ==
    IndexerIdle /\ CrawlerIdle /\ SearchIdle /\ ConcIdle /\ InitBreadcrumb
    /\ KbIdle

SpecBreadcrumb == InitBreadcrumbs /\ [][ExtractBreadcrumb]_vars

InitThreads == InitConc /\ CrawlerIdle /\ SearchIdle /\ FnIdle /\ KbIdle

SpecConc == InitThreads /\ [][NextConc]_vars

SpecSearch == InitSearcher /\ [][NextSearch]_vars

InitSearcherThree == InitSearchThree /\ CrawlerIdle /\ ConcIdle /\ FnIdle /\ KbIdle

SpecSearchThree == InitSearcherThree /\ [][NextSearch]_vars

\* a base_path without knowledge bases
InitKb ==
    IndexerIdle /\ CrawlerIdle /\ SearchIdle /\ ConcIdle /\ FnIdle
    /\ KbIdle

SpecKb == InitKb /\ [][NextKb]_vars

SpecTools == InitKb /\ [][NextTools]_vars

(***************************************************************************)
(* Properties of the indexer                                               *)
(***************************************************************************)
DocsOf(url) == {d \in pages : d.id = url}

ChunksOf(url) == {c \in chunks : c.metadata.parent_url = url}

\* C1: index_page(p, force=False) called again right after a completed
\* index_page(p, force=False) leaves the documents and the chunks as the
\* first call left them, and returns None.
C1_SecondIndexSkips ==
    (ret.op = "index_page" /\ ~ret.force /\ ret.repeat)
        => (~ret.changed /\ (~ret.raised => ret.result = <<>>))

\* the second call returned, and the stored document is the one of p
C1_Witness ==
    /\ ret.op = "index_page" /\ ~ret.force /\ ret.repeat /\ ~ret.raised
    /\ ret.result = <<>>
    /\ DocRecord(ret.page) \in pages
    /\ ChunksOf(ret.page.url) # {}

\* C2: after a completed index_page(p, force=True) the documents hold
\* exactly one document with id p.url and the chunks at most three chunks
\* with parent_url p.url.
C2_ForceOverwrite ==
    (ret.op = "index_page" /\ ret.force /\ ~ret.raised)
        => /\ Cardinality(DocsOf(ret.page.url)) = 1
           /\ Cardinality(ChunksOf(ret.page.url)) <= 3

\* a forced re-index of a URL that was stored, with other content
C2_Witness ==
    /\ ret.op = "index_page" /\ ret.force /\ ~ret.raised
    /\ ret.existed = <<TRUE>> /\ ret.changed
    /\ Cardinality(ChunksOf(ret.page.url)) = 3

\* C3: after remove_page(url) returns, page_exists(url) is False and no
\* chunk has parent_url = url.
C3_RemovePageCascade ==
    (ret.op = "remove_page" /\ ~ret.raised)
        => (~page_exists(pages, ret.url) /\ ChunksOf(ret.url) = {})

\* C4: after remove_domain(d) returns, no document and no chunk has domain
\* d, and list_pages(domain=d) is the empty list, for every d the call can
\* be given (a host name or the empty string).
C4_RemoveDomainCascade ==
    (ret.op = "remove_domain" /\ ~ret.raised)
        => /\ \A d \in pages : d.metadata.domain # ret.domain
           /\ \A c \in chunks : c.metadata.domain # ret.domain
           /\ list_pages(pages, ret.domain) = <<>>

\* C6: in every reachable store state every document has a chunk with its
\* URL as parent_url, and every chunk's parent_url is a stored document.
C6_NoPartialPage ==
    /\ \A d \in pages : ChunksOf(d.id) # {}
    /\ \A c \in chunks : DocsOf(c.metadata.parent_url) # {}

\* C7 as stated: index_pages puts every page's URL in exactly one of
\* indexed and skipped; in skipped exactly when force is False and the
\* document existed when the page was reached; skipped is empty with
\* force=True and on an empty store.
C7_IndexPagesPartition ==
    (ret.op = "index_pages" /\ ~ret.raised)
        => /\ Len(ret.indexed) + Len(ret.skipped) = Len(ret.pagesArg)
           /\ \A i \in 1..Len(ret.pagesArg) :
                LET url == ret.pagesArg[i].url
                IN  /\ (url \in Range(ret.indexed)) # (url \in Range(ret.skipped))
                    /\ (url \in Range(ret.skipped))
                            = (~ret.force /\ ret.existed[i])
           /\ ret.force => ret.skipped = <<>>
           /\ ret.preEmpty => ret.skipped = <<>>

\* the URLs of the pages of ps at the positions that satisfy keep, in the
\* order of ps
UrlsWhere(ps, keep(_)) ==
    LET at == SelectSeq([i \in 1..Len(ps) |-> i], keep)
    IN  [k \in 1..Len(at) |-> ps[at[k]].url]

\* C7 amended: index_pages appends the URL of every input page to exactly
\* one of indexed and skipped, in the order of the pages: to skipped
\* exactly when force is False and the document existed when that page was
\* reached, to indexed otherwise.  skipped is empty with force=True, and on
\* an empty store for pages with distinct URLs.
C7_PerPagePartition ==
    (ret.op = "index_pages" /\ ~ret.raised)
        => /\ Len(ret.existed) = Len(ret.pagesArg)
           /\ ret.skipped
                = UrlsWhere(ret.pagesArg,
                            LAMBDA i : ~ret.force /\ ret.existed[i])
           /\ ret.indexed
                = UrlsWhere(ret.pagesArg,
                            LAMBDA i : ~(~ret.force /\ ret.existed[i]))
           /\ ret.force => ret.skipped = <<>>
           /\ (ret.preEmpty /\ DistinctUrls(ret.pagesArg))
                => ret.skipped = <<>>

\* two pages of one URL given on an empty store: the URL is indexed for
\* the first page and skipped for the second
C7_Witness ==
    /\ ret.op = "index_pages" /\ ~ret.raised /\ ~ret.force /\ ret.preEmpty
    /\ Len(ret.pagesArg) = 2
    /\ ret.pagesArg[1].url = ret.pagesArg[2].url
    /\ ret.indexed = <<ret.pagesArg[1].url>>
    /\ ret.skipped = <<ret.pagesArg[1].url>>

(***************************************************************************)
(* Properties of the crawler                                               *)
(***************************************************************************)
\* C5: the map crawl_domain returns holds at most max_pages entries.
C5_CrawlBound == cpc = "done" => Len(crawled) <= crawler.max_pages

\* C8: within one crawl_domain call every URL is fetched at most once.
C8_FetchedOnce ==
    \A i, j \in 1..Len(fetchLog) : fetchLog[i] = fetchLog[j] => i = j

\* C9: every URL key of the map crawl_domain returns has the host of the
\* crawler's base_url.
C9_SameHost ==
    cpc = "done" => \A u \in Keys(crawled) : netloc(u) = netloc(crawler.base_url)

\* a crawl seeded from a sitemap that also returns a page it found through
\* a link
C9_Witness ==
    /\ cpc = "done" /\ sitemap_url
    /\ urls_to_crawl # <<crawler.base_url>>
    /\ \E u \in Keys(crawled) : u \notin Range(urls_to_crawl)
    /\ \E u \in Keys(crawled) : u \in Range(urls_to_crawl)

\* number of requests for url sent so far
Requests(url) == Cardinality({i \in 1..Len(fetchLog) : fetchLog[i] = url})

\* the page requests sent and not yet answered
Outstanding == {i \in 1..Len(results) : results[i] = Pending}

\* how many times the queue q holds the URL u
Count(q, u) == Cardinality({i \in DOMAIN q : q[i] = u})

\* C16: a failed fetch does not abort a crawl and is not retried.
\* crawl_multiple returns the entries of exactly the URLs whose fetch
\* succeeded and sends one request per URL given.  crawl_domain ends only
\* with its queue empty or the cap reached, and a failure adds no request:
\* the requests sent for a URL and its entries in the queue together never
\* exceed the times the seed list names it, or one for a URL found as a
\* link.
C16_FailuresNotFatal ==
    /\ cpc = "multi_done" =>
        /\ Keys(crawled) = {batch[i] : i \in {j \in 1..Len(batch) : results[j] # <<>>}}
        /\ fetchLog = urls_to_crawl
    /\ cpc = "done" => (queue = <<>> \/ Len(crawled) >= crawler.max_pages)
    /\ cpc \in {"gather", "loop", "done"} =>
        \A u \in Range(fetchLog) \cup Range(queue) :
            Requests(u) + Count(queue, u)
                <= IF u \in Range(urls_to_crawl) THEN Count(urls_to_crawl, u)
                   ELSE 1

\* a crawl_domain call that returned after a first batch with a failed
\* fetch: the URL that waited in the queue during that batch was fetched
\* in the next one, the failed URL was requested once and has no entry
C16_Witness ==
    /\ cpc = "done" /\ Len(fetchLog) > BatchSize
    /\ fetchLog[BatchSize + 1] \in Keys(crawled)
    /\ \E i \in 1..BatchSize :
            fetchLog[i] \notin Keys(crawled) /\ Requests(fetchLog[i]) = 1

\* the loc entries of the sitemap response on the host of base_url
BaseDomainLocs ==
    SelectSeq(sitemap_response.body,
              LAMBDA u : u.host = crawler.base_url.host)

\* C17: the seed list of crawl_domain is the list of the sitemap's loc
\* entries on the base domain when a sitemap_url is given and that list is
\* not empty, and [base_url] in every other case.
C17_SeedList ==
    cpc \in {"loop", "gather", "done"} =>
        urls_to_crawl =
            IF sitemap_url /\ sitemap_response.ok /\ BaseDomainLocs # <<>>
            THEN BaseDomainLocs
            ELSE <<crawler.base_url>>

\* a crawl seeded by a sitemap that also lists a URL of another host
C17_Witness ==
    /\ cpc = "done" /\ sitemap_url /\ sitemap_response.ok
    /\ \E i \in 1..Len(sitemap_response.body) :
            sitemap_response.body[i].host # crawler.domain
    /\ urls_to_crawl = BaseDomainLocs
    /\ BaseDomainLocs # <<>>

\* C18: at every moment at most 10 page requests are outstanding, in
\* crawl_domain and in crawl_multiple.
C18_BoundedFanOut == Cardinality(Outstanding) <= BatchSize

(***************************************************************************)
(* Properties of the search                                                *)
(***************************************************************************)
\* C10: search returns at most top_k results, no URL in two of them, and
\* the scores of consecutive results do not increase.
C10_SearchShape ==
    spc = "done" =>
        /\ Len(search_results) <= top_k
        /\ \A i, j \in 1..Len(search_results) :
                search_results[i].url = search_results[j].url => i = j
        /\ \A i \in 1..(Len(search_results) - 1) :
                search_results[i].score >= search_results[i + 1].score

\* two results with different scores out of more hits than results
C10_Witness ==
    /\ spc = "done" /\ top_k = 2 /\ Len(search_results) = 2
    /\ Len(chunk_results) > 2
    /\ search_results[1].score > search_results[2].score

\* C11: every score search returns lies in [0, 1] (in units of
\* 1/RoundUnit: in 0..RoundUnit).
C11_ScoreRange ==
    spc = "done" =>
        \A i \in 1..Len(search_results) :
            /\ search_results[i].score >= 0
            /\ search_results[i].score <= RoundUnit

\* C13: a store error raised by any store call of remove_page or
\* remove_domain is swallowed: the removal returns instead of raising.
C13_RemovalSwallowsErrors ==
    ret.op \in {"remove_page", "remove_domain"} => ~ret.raised

\* C14: after a completed index_page(p, force=True) the document and every
\* chunk with parent_url p.url carry p's data.
C14_NoStaleChunks ==
    (ret.op = "index_page" /\ ret.force /\ ~ret.raised)
        => /\ DocsOf(ret.page.url) = {DocRecord(ret.page)}
           /\ \A c \in ChunksOf(ret.page.url) :
                \E i \in 0..2 : c = ChunkRecord(ret.page, i)

\* C15: index_page(p, force=True), index_pages(pages, force=True),
\* remove_page(url) and remove_domain(d) called again right after the same
\* call leave the store as the first call left it, and the forced calls
\* report every page as indexed.
C15_Idempotent ==
    (/\ ret.repeat
     /\ \/ ret.op \in {"index_page", "index_pages"} /\ ret.force
        \/ ret.op \in {"remove_page", "remove_domain"})
        => /\ ~ret.changed
           /\ ret.op = "index_page" => ret.result = <<ret.page.url>>
           /\ ret.op = "index_pages" =>
                /\ ret.indexed = [i \in 1..Len(ret.pagesArg) |-> ret.pagesArg[i].url]
                /\ ret.skipped = <<>>

\* a forced batch of two stored pages indexed again
C15_Witness ==
    /\ ret.repeat /\ ret.op = "index_pages" /\ ret.force
    /\ Len(ret.pagesArg) = 2 /\ Len(ret.indexed) = 2
    /\ \A i \in 1..2 : ChunksOf(ret.pagesArg[i].url) # {}

\* C19: a search that overlaps an index_page(force=True) or a remove_page
\* call returns what a search run alone on the store as it was when the
\* query began returns.
C19_SnapshotConsistent ==
    (/\ spc = "done"
     /\ \E t \in DOMAIN calls :
            \/ calls[t].op = "remove_page"
            \/ calls[t].op = "index_page" /\ calls[t].force)
        => search_results
                = Assemble(Take(Ranked(url_scores), top_k), snapshot.pages)

\* C20: every step of search, list_pages, get_full_page, page_exists,
\* crawl_url, crawl_multiple and crawl_domain leaves the documents and the
\* chunks as they are, and a step that changes either collection is a call
\* of index_page, index_pages, remove_page or remove_domain.
C20_ReadOnly ==
    [][/\ ret'.op \in ReadOps => (pages' = pages /\ chunks' = chunks)
       /\ (pages' # pages \/ chunks' # chunks)
            => /\ ret'.op \in WriteOps
               /\ searchVars' = searchVars
               /\ crawlVars' = crawlVars]_vars

\* a search that returned a page of the store it ran on
C20_Witness ==
    /\ ret.op = "search" /\ spc = "done" /\ search_results # <<>>
    /\ \E d \in pages : d.id = search_results[1].url

\* C21: after any sequence of index_page, index_pages, remove_page and
\* remove_domain calls, list_pages(domain=d) returns one entry for each
\* stored document whose URL host is d and no other entry, for every d (a
\* host name or the empty string); after a set of pages was indexed on an
\* empty store it returns the indexed URLs of d.
C21_ListPagesExact ==
    \A d \in Hosts \cup {NoDomain} :
        LET listed == list_pages(pages, d)
            stored == {x \in pages : x.id.host = d}
        IN  /\ {listed[i].url : i \in DOMAIN listed} = {x.id : x \in stored}
            /\ Len(listed) = Cardinality(stored)
            /\ (ret.op = "index_pages" /\ ret.preEmpty /\ ~ret.raised)
                    => {listed[i].url : i \in DOMAIN listed}
                         = {u \in {ret.pagesArg[i].url : i \in DOMAIN ret.pagesArg}
                                : u.host = d}

\* the page records _fetch_page has returned
PageRecords ==
    {results[i][1] : i \in {j \in DOMAIN results :
                                results[j] # Pending /\ results[j] # <<>>}}
        \cup Range(crawled)

\* C22: every URL in the links of a page record produced through crawl_url,
\* crawl_multiple or crawl_domain has the host of the record's own url,
\* also when that host is not the host of base_url, and links holds no URL
\* twice.
C22_LinksSameHost ==
    \A r \in PageRecords :
        /\ \A i \in DOMAIN r.links : netloc(r.links[i]) = netloc(r.url)
        /\ \A i, j \in DOMAIN r.links : r.links[i] = r.links[j] => i = j

\* C23: crawl_domain terminates when every fetch completes, whatever the
\* links of the pages; its loop ends with the queue empty or the page cap
\* reached, and a URL that is in seen is never appended to the queue again.
C23_Terminates ==
    /\ <>(cpc = "done")
    /\ [](cpc = "done"
            => (queue = <<>> \/ Len(crawled) >= crawler.max_pages))
    /\ [][\A u \in Range(queue') :
            /\ u \in seen => Count(queue', u) <= Count(queue, u)
            /\ (u \notin seen /\ cpc = "gather") => Count(queue', u) = 1]_vars

\* a crawl that ended on two pages that link to each other
C23_Witness ==
    /\ cpc = "done"
    /\ \E r1, r2 \in Range(crawled) :
        /\ r1.url # r2.url
        /\ r1.url \in Range(r2.links)
        /\ r2.url \in Range(r1.links)

\* the links of the pages fetched in a batch, page after page in the
\* batch's order
RECURSIVE FlatLinks(_)
FlatLinks(rs) ==
    IF rs = <<>> THEN <<>>
    ELSE (IF Head(rs) = <<>> THEN <<>> ELSE Head(rs)[1].links)
            \o FlatLinks(Tail(rs))

\* the first occurrences of the elements of s that are not in S
RECURSIVE FirstNew(_, _)
FirstNew(s, S) ==
    IF s = <<>> THEN <<>>
    ELSE IF Head(s) \in S THEN FirstNew(Tail(s), S)
    ELSE <<Head(s)>> \o FirstNew(Tail(s), S \cup {Head(s)})

\* the URLs of the batch whose fetch gave a page, in the batch's order
Succeeded == SelectSeq([i \in DOMAIN batch |-> <<batch[i], results[i]>>],
                       LAMBDA x : x[2] # <<>>)

\* C24: what a batch of crawl_domain appends to the queue, adds to seen and
\* records in the result map is given by the batch and the pages fetched,
\* taken in the batch's order, whatever the order the fetches ended in.
C24_OrderDeterministic ==
    [][CrawlCollect =>
        /\ queue' = queue \o FirstNew(FlatLinks(results), seen)
        /\ seen' = seen \cup Range(FlatLinks(results))
        /\ [i \in DOMAIN crawled' |-> crawled'[i].url]
                = [i \in DOMAIN crawled |-> crawled[i].url]
                    \o FirstNew([i \in DOMAIN Succeeded |-> Succeeded[i][1]],
                                Keys(crawled))
        /\ \A r \in Range(crawled') :
              \/ \E i \in DOMAIN Succeeded :
                    /\ Succeeded[i][1] = r.url /\ Succeeded[i][2][1] = r
                    /\ \A j \in DOMAIN Succeeded :
                            Succeeded[j][1] = r.url => j <= i
              \/ /\ r \in Range(crawled)
                 /\ \A i \in DOMAIN Succeeded : Succeeded[i][1] # r.url]_vars

\* a batch of two pages whose fetches ended in reverse order, each page
\* with a link that was appended to the queue
C24_Witness ==
    /\ cpc = "loop" /\ completion = <<2, 1>>
    /\ results[1] # <<>> /\ results[2] # <<>>
    /\ Len(queue) = 2 /\ queue[1] # queue[2]
    /\ queue[1] \in Range(results[1][1].links)
    /\ queue[2] \in Range(results[2][1].links)
    /\ queue[1] \notin Range(results[2][1].links)

\* two URLs that differ only in a trailing slash or in the fragment
SameButSlashOrFragment(u, v) ==
    u.host = v.host /\ u.path = v.path /\ u.query = v.query

\* C25: the link normalization of _parse_page maps two URLs that differ
\* only in a trailing slash or in the fragment to the same URL, with or
\* without a query string, and applied to its own result it returns it
\* unchanged.
C25_Canonical ==
    (fn = "_parse_page" /\ out # <<>>)
        => /\ \A u, v \in UrlParts :
                (UrlString(u) = arg /\ SameButSlashOrFragment(u, v))
                    => NormalizedLink(UrlString(v)) = out[1]
           /\ \A i \in DOMAIN out : out[i] = out[1]

\* C26: for a page without a structured breadcrumb and without a sidebar
\* result, _extract_breadcrumb returns the path segments of the URL, "-"
\* and "_" replaced by spaces, title-cased and joined by " > ", for every
\* URL, the ones with an empty path included.
C26_BreadcrumbFallback ==
    (/\ fn = "_extract_breadcrumb" /\ out # <<>>
     /\ arg.soup.breadcrumb_el = <<>>
     /\ arg.soup.sidebar = <<>>)
        => out[1] = join(PathParts(arg.url))

\* the BM25 entry of url, as a sequence of one score at most
Bm25Of(url) ==
    SelectSeq([i \in DOMAIN bm25_scores |-> bm25_scores[i]],
              LAMBDA b : b.url = url)

\* C27: the final score of a candidate URL is 0.7 dense[url] + 0.3
\* bm25[url] when the URL has a BM25 entry and dense[url] otherwise; every
\* URL with a BM25 entry is a dense candidate, so no URL is scored as
\* 0.3 bm25[url] alone.
C27_FinalScore ==
    spc = "done" =>
        LET dense == Dense(chunk_results, <<>>)
        IN  /\ {bm25_scores[i].url : i \in DOMAIN bm25_scores}
                    \subseteq {dense[i].url : i \in DOMAIN dense}
            /\ Len(url_scores) = Len(dense)
            /\ \A i \in DOMAIN url_scores :
                /\ url_scores[i].url = dense[i].url
                /\ url_scores[i].score =
                        IF Bm25Of(dense[i].url) # <<>>
                        THEN (dense[i].score * DenseWeight
                                + Bm25Of(dense[i].url)[1].score * Bm25Weight)
                                    \div 10
                        ELSE dense[i].score

\* a search with one candidate that has a BM25 entry and one that has none
C27_Witness ==
    /\ spc = "done" /\ Len(url_scores) = 2 /\ Len(bm25_scores) = 1
    /\ \E i \in DOMAIN url_scores :
            /\ url_scores[i].url = bm25_scores[1].url
            /\ url_scores[i].score
                    # Dense(chunk_results, <<>>)[i].score

Reverse(s) == [i \in 1..Len(s) |-> s[Len(s) + 1 - i]]

\* the hits of the dense phase whose parent_url is url
HitsOf(url) == {h \in Range(chunk_results) : h.metadata.parent_url = url}

\* scores holds, for every URL of the hits, the largest 1 - distance of
\* its hits and the metadata of a hit with that distance
IsDenseMax(scores) ==
    /\ {scores[i].url : i \in DOMAIN scores}
            = {h.metadata.parent_url : h \in Range(chunk_results)}
    /\ \A i, j \in DOMAIN scores : scores[i].url = scores[j].url => i = j
    /\ \A i \in DOMAIN scores :
        /\ \A h \in HitsOf(scores[i].url) : One - h.distance <= scores[i].score
        /\ \E h \in HitsOf(scores[i].url) :
                /\ One - h.distance = scores[i].score
                /\ h.metadata = scores[i].meta

\* C30: after the dense phase dense[url] is the maximum of 1 - distance
\* over the hits whose parent_url is url, the title and breadcrumb kept
\* for url are those of a hit with that distance, and the hits taken in
\* the opposite order give the same scores.
C30_DenseMax ==
    spc = "dense" =>
        /\ IsDenseMax(url_scores)
        /\ IsDenseMax(Dense(Reverse(chunk_results), <<>>))
        /\ \A e \in Range(Dense(Reverse(chunk_results), <<>>)) :
                \E i \in DOMAIN url_scores :
                    url_scores[i].url = e.url /\ url_scores[i].score = e.score

\* two URLs among the hits, one of them with hits at different distances
C30_Witness ==
    /\ spc = "dense" /\ Len(url_scores) = 2
    /\ \E h1, h2 \in HitsOf(url_scores[1].url) : h1.distance < h2.distance
    /\ \E h \in HitsOf(url_scores[2].url) :
            One - h.distance < url_scores[2].score

\* the three views of the page stored as the document d
StoredViews(d) ==
    <<d.metadata.breadcrumb,
      d.metadata.title \o <<" - ">> \o d.metadata.breadcrumb,
      TakeChars(d.document, ViewCap)>>

\* C28: when index_page(p, force=False) returns None, the chunks hold a
\* chunk for every non-empty view of the page stored under p.url, also
\* after an earlier index_page for that URL raised between the document
\* upsert and the chunk upserts.
C28_SkippedHasChunks ==
    (ret.op = "index_page" /\ ~ret.force /\ ~ret.raised /\ ret.result = <<>>)
        => \A d \in DocsOf(ret.page.url) :
             \A i \in 0..2 :
                ~IsBlank(StoredViews(d)[i + 1])
                    => \E c \in chunks : c.id = ChunkId(d.id, i)

\* the records of coll whose domain is not domain
NotOfDomain(coll, domain) == {r \in coll : r.metadata.domain # domain}

\* C29: index_page(p, force) changes only the document with id p.url and
\* the chunks of p.url, remove_page(url) only the document and the chunks
\* of url, remove_domain(d) only the documents and chunks of domain d:
\* the documents and chunks of every other URL or domain stay as they are.
C29_Frame ==
    [][/\ ret'.op \in {"index_page", "remove_page"} =>
            LET url == IF ret'.op = "index_page" THEN ret'.page.url
                       ELSE ret'.url
            IN  /\ {d \in pages' : d.id # url} = {d \in pages : d.id # url}
                /\ {c \in chunks' : c.metadata.parent_url # url}
                        = {c \in chunks : c.metadata.parent_url # url}
       /\ ret'.op = "remove_domain" =>
            /\ NotOfDomain(pages', ret'.domain) = NotOfDomain(pages, ret'.domain)
            /\ NotOfDomain(chunks', ret'.domain)
                    = NotOfDomain(chunks, ret'.domain)]_vars

\* a stored page indexed again with other content, next to a page of
\* another URL that has its document and chunks
C29_Witness ==
    /\ ret.op = "index_page" /\ ret.force /\ ret.changed
    /\ ret.existed = <<TRUE>>
    /\ \E d \in pages : d.id # ret.page.url /\ ChunksOf(d.id) # {}

\* the blended score search has given to url
ScoreOf(url) ==
    (CHOOSE e \in Range(url_scores) : e.url = url).score

\* what a search that returned gave: every result is for a URL whose
\* document is in the documents collection and carries that document's
\* text, the results are the candidates among the top_k that have a
\* document, in the order of the blended scores
ReturnedHaveDocuments ==
    spc = "done" =>
        /\ \A i \in DOMAIN search_results :
                \E d \in pages : /\ d.id = search_results[i].url
                                 /\ d.document = search_results[i].content
        /\ {search_results[i].url : i \in DOMAIN search_results}
                = {e.url : e \in {x \in Range(Take(Ranked(url_scores), top_k)) :
                                        page_exists(pages, x.url)}}
        /\ \A i, j \in DOMAIN search_results :
                i < j => ScoreOf(search_results[i].url)
                            >= ScoreOf(search_results[j].url)

\* C31: every result of search is for a URL whose document is in the
\* documents collection and carries that document's text; the candidates
\* whose document has vanished are dropped, so that a search whose
\* candidates have lost their documents returns the others and does not
\* raise; the results are in the order of the blended scores.
C31_ResultsHaveDocuments ==
    /\ spc # "raised"
    /\ ReturnedHaveDocuments

\* the candidate URLs of the search that have a stored document
StoredCandidates == {e.url : e \in {x \in Range(url_scores) :
                                        page_exists(pages, x.url)}}

\* C32: when at least top_k candidate URLs of a search have a stored
\* document, search returns exactly top_k results.
C32_FullPage ==
    (spc = "done" /\ Cardinality(StoredCandidates) >= top_k)
        => Len(search_results) = top_k

\* C33 as stated: of two candidates with equal dense similarity, the one
\* with a positive BM25 score gets a final score at least as high as the
\* one with no BM25 entry.
C33_NeverLowers ==
    spc = "done" =>
        LET dense == Dense(chunk_results, <<>>)
        IN  \A i, j \in DOMAIN dense :
                (/\ dense[i].score = dense[j].score
                 /\ Bm25Of(dense[i].url) # <<>>
                 /\ Bm25Of(dense[j].url) = <<>>)
                    => ScoreOf(dense[i].url) >= ScoreOf(dense[j].url)

\* 0.0001, the unit search rounds its scores to
Margin == One \div RoundUnit

\* C33 amended: of two candidates with equal dense similarity d, the one
\* with a BM25 entry b gets a final score lower than the one with no BM25
\* entry when b is below d by 0.0001 or more, and at least as high when b
\* is above d by 0.0001 or more; when b and d are closer than 0.0001 the
\* two final scores are closer than 0.0001.
C33_LowersBelowDense ==
    spc = "done" =>
        LET dense == Dense(chunk_results, <<>>)
        IN  \A i, j \in DOMAIN dense :
                (/\ dense[i].score = dense[j].score
                 /\ Bm25Of(dense[i].url) # <<>>
                 /\ Bm25Of(dense[j].url) = <<>>)
                    => LET b == Bm25Of(dense[i].url)[1].score
                           d == dense[i].score
                           with == ScoreOf(dense[i].url)
                           without == ScoreOf(dense[j].url)
                       IN  /\ b <= d - Margin => with < without
                           /\ b >= d + Margin => with >= without
                           /\ (d - Margin < b /\ b < d + Margin)
                                => (/\ with - without < Margin
                                    /\ without - with < Margin)

\* three candidates with equal dense similarity: one with the highest
\* BM25 score, one with a lower BM25 score, one with no BM25 entry
C33_Witness ==
    /\ spc = "done" /\ Len(url_scores) = 3 /\ Len(bm25_scores) = 2
    /\ LET dense == Dense(chunk_results, <<>>)
       IN  /\ \A i \in DOMAIN dense : dense[i].score = One
           /\ \E i, j \in DOMAIN dense :
                /\ Bm25Of(dense[i].url) # <<>>
                /\ Bm25Of(dense[j].url) = <<>>
                /\ ScoreOf(dense[i].url) < ScoreOf(dense[j].url)

\* the position of the first dense-phase hit of url
FirstHit(url) ==
    CHOOSE i \in DOMAIN chunk_results :
        /\ chunk_results[i].metadata.parent_url = url
        /\ \A j \in 1..(i - 1) : chunk_results[j].metadata.parent_url # url

\* C34: results whose URLs have the same blended score are in the order
\* in which the URLs first appeared among the hits of the dense phase.
C34_TieOrder ==
    spc = "done" =>
        \A i, j \in DOMAIN search_results :
            (i < j /\ ScoreOf(search_results[i].url)
                        = ScoreOf(search_results[j].url))
                => FirstHit(search_results[i].url)
                        < FirstHit(search_results[j].url)

\* two results with the same blended score, one of them blended with BM25
C34_Witness ==
    /\ spc = "done" /\ Len(search_results) = 2 /\ Len(bm25_scores) = 1
    /\ ScoreOf(search_results[1].url) = ScoreOf(search_results[2].url)

(***************************************************************************)
(* Properties of the file-based knowledge bases                            *)
(***************************************************************************)
\* C35: after any sequence of add_document, index_url and
\* remove_indexed_content calls run one at a time, index.json's
\* document_count of a knowledge base equals the number of entries of its
\* documents map, and the file docs/<doc_id>.json of every entry exists.
C35_IndexConsistent ==
    \A kb \in KbNames :
        kb_exists(kbs[kb]) =>
            /\ kbs[kb].document_count = Len(kbs[kb].documents)
            /\ \A i \in DOMAIN kbs[kb].documents :
                    \E f \in kbs[kb].docs :
                        f.doc_id = kbs[kb].documents[i].doc_id

\* remove_indexed_content removed one of two documents, of which the first
\* was user-indexed and the second put there by add_document
C35_Witness ==
    /\ kb_ret.op = "remove_indexed_content"
    /\ kb_ret.success
    /\ kb_ret.before.document_count = 2
    /\ kbs[DEFAULT_KB_NAME].document_count = 1
    /\ \E f \in kbs[DEFAULT_KB_NAME].docs : f.source = "none"

\* C36: when index_documentation returns success=False, the knowledge base
\* kb_name is in the state it had before the call: a knowledge base that
\* existed keeps its documents, also under force_refresh, and one that did
\* not exist is not created.
C36_FailureLeavesKb ==
    (kb_ret.op = "index_documentation" /\ ~kb_ret.success)
        => kbs[kb_ret.kb_name] = kb_ret.before

\* C37: a document that index_documentation crawled into the default
\* knowledge base is never deleted by remove_indexed_content, whatever
\* index_url, index_multiple_urls, refresh_all_indexed_content and
\* remove_indexed_content calls came before: the call returns success=False
\* and leaves index.json and the document file as they were.
C37_CrawledNeverRemoved ==
    (kb_ret.op = "remove_indexed_content" /\ kb_ret.crawled)
        => (~kb_ret.success /\ kbs[DEFAULT_KB_NAME] = kb_ret.before)

(***************************************************************************)
(* Properties of concurrent calls                                          *)
(***************************************************************************)
\* the chunks index_page writes for page
ChunksFrom(page) ==
    {ChunkRecord(page, i) : i \in {j \in 0..2 : ~IsBlank(View(page, j))}}

\* C12: once two interleaved index_page calls for one URL have both
\* written and finished, the stored document and all the chunks of the URL
\* are those of one of the two calls.
C12_OneWriterWins ==
    (\A t \in DOMAIN calls : calls[t].pc = "done" /\ calls[t].result # <<>>)
        => \E t \in DOMAIN calls :
                /\ DocsOf(ConcUrl) = {DocRecord(calls[t].page)}
                /\ ChunksOf(ConcUrl) = ChunksFrom(calls[t].page)

====
